---- MODULE Spec2Model ----
(***************************************************************************)
(* Model of the keyword matching engine of easyApply                       *)
(* (src/src/core/matcher.py, class KeywordMatcher).                        *)
(*                                                                         *)
(* Strings are sequences of one-character strings, so that lower(),        *)
(* strip(), split(), the substring test and the similarity ratio are       *)
(* computed character by character.  Floats are exact scaled integers:     *)
(* importances and weights in tenths, confidences in hundredths, weighted  *)
(* scores in thousandths; percentages are exact fractions [num, den].      *)
(***************************************************************************)
EXTENDS Integers, Sequences, FiniteSets, TLC

(***************************************************************************)
(* Bounds of the model.                                                    *)
(***************************************************************************)
MaxResume == 2
MaxJob == 2
\* the summary helpers are run on the scores 0, 0.5, 1, ... MaxScore (the
\* overall score of a result can exceed 100)
\* the longest keyword list drawn from the words of the worked scenario
ScenarioLen == 3
MaxScore == 120
\* calls of match_keywords made on one matcher
MaxCalls == 2
\* the most keywords an extraction method hands to _post_process_keywords
MaxRaw == 4
\* the longest string handed to clean_text and normalize_keyword
MaxTextLen == 4
\* the longest missing list handed to _generate_recommendations
MaxMissing == 11

(***************************************************************************)
(* Program constants (src/src/utils/constants.py, src/src/core/matcher.py).*)
(***************************************************************************)
MIN_FUZZY_MATCH_RATIO == 70
EXACT_MATCH_WEIGHT == 10
FUZZY_MATCH_WEIGHT == 8
PARTIAL_MATCH_WEIGHT == 6
EXACT_CONFIDENCE == 100
PARTIAL_CONFIDENCE == 60
CONFIDENCE_SCALE == 100
DEFAULT_IMPORTANCE == 5
DEFAULT_FREQUENCY == 1
FUZZYWUZZY_AVAILABLE == TRUE

Min(a, b) == IF a <= b THEN a ELSE b

(***************************************************************************)
(* Python str operations used by the matcher.                              *)
(***************************************************************************)
IsSpace(c) == c \in {" ", "\n"}

ToLower(c) ==
    CASE c = "A" -> "a"
      [] c = "B" -> "b"
      [] c = "D" -> "d"
      [] c = "M" -> "m"
      [] c = "P" -> "p"
      [] OTHER -> c

RECURSIVE Lower(_)
Lower(s) == IF s = <<>> THEN <<>> ELSE <<ToLower(Head(s))>> \o Lower(Tail(s))

RECURSIVE LStrip(_)
LStrip(s) == IF s # <<>> /\ IsSpace(Head(s)) THEN LStrip(Tail(s)) ELSE s

RECURSIVE RStrip(_)
RStrip(s) ==
    IF s # <<>> /\ IsSpace(s[Len(s)]) THEN RStrip(SubSeq(s, 1, Len(s) - 1)) ELSE s

Strip(s) == RStrip(LStrip(s))

\* a in b
IsSubstring(a, b) ==
    \E i \in 0..(Len(b) - Len(a)) : SubSeq(b, i + 1, i + Len(a)) = a

\* set(s.split()): the maximal runs of non-whitespace characters
Split(s) ==
    { SubSeq(s, i, j) : <<i, j>> \in
        { p \in (1..Len(s)) \X (1..Len(s)) :
            /\ p[1] <= p[2]
            /\ \A k \in p[1]..p[2] : ~IsSpace(s[k])
            /\ (p[1] = 1 \/ IsSpace(s[p[1] - 1]))
            /\ (p[2] = Len(s) \/ IsSpace(s[p[2] + 1])) } }

(***************************************************************************)
(* fuzz.ratio: 100 for equal strings, 0 when one is empty, otherwise       *)
(* round(100 * 2*M/T), M the number of matched characters and T the sum    *)
(* of the two lengths; round() rounds halves to even.                      *)
(***************************************************************************)
RECURSIVE LCS(_, _)
LCS(a, b) ==
    IF a = <<>> \/ b = <<>> THEN 0
    ELSE IF Head(a) = Head(b) THEN 1 + LCS(Tail(a), Tail(b))
    ELSE LET x == LCS(Tail(a), b)
             y == LCS(a, Tail(b))
         IN IF x >= y THEN x ELSE y

RoundDiv(n, d) ==
    LET q == n \div d
        r == n % d
    IN IF 2 * r < d THEN q
       ELSE IF 2 * r > d THEN q + 1
       ELSE IF q % 2 = 0 THEN q ELSE q + 1

Ratio(s1, s2) ==
    IF s1 = s2 THEN 100
    ELSE IF s1 = <<>> \/ s2 = <<>> THEN 0
    ELSE RoundDiv(100 * 2 * LCS(s1, s2), Len(s1) + Len(s2))

(***************************************************************************)
(* KeywordMatcher._is_partial_match                                        *)
(***************************************************************************)
\* mutant: one shared character is enough
IsPartialMatch_SharedLetter(keyword1, keyword2) ==
    \E i \in 1..Len(keyword1) : \E k \in 1..Len(keyword2) : keyword1[i] = keyword2[k]

\* a variant that asks for one shared word, whatever the sizes of the word sets
IsPartialMatch_AnySharedWord(keyword1, keyword2) ==
    \/ IsSubstring(keyword1, keyword2)
    \/ IsSubstring(keyword2, keyword1)
    \/ Split(keyword1) \cap Split(keyword2) # {}

IsPartialMatch(keyword1, keyword2) ==
    \/ IsSubstring(keyword1, keyword2)
    \/ IsSubstring(keyword2, keyword1)
    \/ LET words1 == Split(keyword1)
           words2 == Split(keyword2)
       IN 2 * Cardinality(words1 \cap words2)
            >= Min(Cardinality(words1), Cardinality(words2))

(***************************************************************************)
(* Keyword records are Python dicts: a record whose DOMAIN holds the keys  *)
(* that are present.  Get is dict.get(key, default).                       *)
(***************************************************************************)
Get(d, key, default) == IF key \in DOMAIN d THEN d[key] ELSE default

MATCH_COLORS ==
    [exact |-> "#28A745", fuzzy |-> "#FFC107", partial |-> "#FD7E14",
     missing |-> "#DC3545", neutral |-> "#6C757D"]

(***************************************************************************)
(* KeywordMatcher._clean_keyword: non-word characters become spaces,       *)
(* whitespace runs collapse to one space, then strip() and lower().        *)
(***************************************************************************)
IsWordChar(c) == c \notin {" ", "-"}

RECURSIVE ReplaceNonWord(_)
ReplaceNonWord(s) ==
    IF s = <<>> THEN <<>>
    ELSE <<IF IsWordChar(Head(s)) \/ IsSpace(Head(s)) THEN Head(s) ELSE " ">>
            \o ReplaceNonWord(Tail(s))

RECURSIVE CollapseSpaces(_)
CollapseSpaces(s) ==
    IF Len(s) < 2 THEN s
    ELSE IF IsSpace(s[1]) /\ IsSpace(s[2]) THEN CollapseSpaces(Tail(s))
    ELSE <<Head(s)>> \o CollapseSpaces(Tail(s))

CleanKeyword(keyword) == Lower(Strip(CollapseSpaces(ReplaceNonWord(keyword))))

(***************************************************************************)
(* KeywordMatcher._normalize_keywords.  The field index is a ghost: the    *)
(* position of the entry in the normalized list, standing for the identity *)
(* of the Python dict.                                                     *)
(***************************************************************************)
NormalizedKeyword(keyword, idx) ==
    LET text == Get(keyword, "text", <<>>)
    IN [original   |-> text,
        normalized |-> Strip(Lower(text)),
        cleaned    |-> CleanKeyword(text),
        importance |-> Get(keyword, "importance", DEFAULT_IMPORTANCE),
        type       |-> Get(keyword, "type", "unknown"),
        frequency  |-> Get(keyword, "frequency", DEFAULT_FREQUENCY),
        metadata   |-> keyword,
        index      |-> idx]

RECURSIVE NormalizeFrom(_, _, _)
NormalizeFrom(keywords, i, normalized) ==
    IF i > Len(keywords) THEN normalized
    ELSE IF Get(keywords[i], "text", <<>>) = <<>>
         THEN NormalizeFrom(keywords, i + 1, normalized)
         ELSE NormalizeFrom(keywords, i + 1,
                  Append(normalized,
                         NormalizedKeyword(keywords[i], Len(normalized) + 1)))

NormalizeKeywords(keywords) == NormalizeFrom(keywords, 1, <<>>)

(***************************************************************************)
(* KeywordMatcher._find_exact_matches.  The loop runs over a Python set,   *)
(* so the order of the matches is the set's iteration order: order is a    *)
(* sequence enumerating the common normalized strings.                     *)
(***************************************************************************)
NormalizedSet(keywords) == {keywords[i].normalized : i \in 1..Len(keywords)}

CommonKeywords(resume_keywords, job_keywords) ==
    NormalizedSet(resume_keywords) \cap NormalizedSet(job_keywords)

IterationOrders(S) ==
    { o \in [1..Cardinality(S) -> S] : \A x \in S : \E i \in DOMAIN o : o[i] = x }

SomeOrder(S) == CHOOSE o \in IterationOrders(S) : TRUE

\* mutant: the last entry carrying the string instead of the first
LastWith(keywords, keyword) ==
    keywords[CHOOSE i \in 1..Len(keywords) :
                /\ keywords[i].normalized = keyword
                /\ \A k \in (i + 1)..Len(keywords) : keywords[k].normalized # keyword]

\* next(kw for kw in keywords if kw['normalized'] == keyword)
FirstWith(keywords, keyword) ==
    keywords[CHOOSE i \in 1..Len(keywords) :
                /\ keywords[i].normalized = keyword
                /\ \A k \in 1..(i - 1) : keywords[k].normalized # keyword]

ExactMatch(resume_keywords, job_keywords, keyword) ==
    LET resume_kw == FirstWith(resume_keywords, keyword)
        job_kw == FirstWith(job_keywords, keyword)
    IN [resume_keyword    |-> resume_kw.original,
        job_keyword       |-> job_kw.original,
        normalized        |-> keyword,
        match_type        |-> "exact",
        confidence        |-> EXACT_CONFIDENCE,
        weight            |-> EXACT_MATCH_WEIGHT,
        resume_importance |-> resume_kw.importance,
        job_importance    |-> job_kw.importance,
        color             |-> MATCH_COLORS["exact"],
        resume_index      |-> resume_kw.index,
        job_index         |-> job_kw.index]

\* mutant: one match per job entry whose string is in the resume list, instead
\* of one per common string
FindExactMatches_PerJobEntry(resume_keywords, job_keywords, order) ==
    LET hits == SelectSeq(job_keywords,
                    LAMBDA kw : kw.normalized \in NormalizedSet(resume_keywords))
    IN [i \in 1..Len(hits) |->
          ExactMatch(resume_keywords, job_keywords, hits[i].normalized)]

FindExactMatches(resume_keywords, job_keywords, order) ==
    [i \in 1..Len(order) |-> ExactMatch(resume_keywords, job_keywords, order[i])]

\* {kw['normalized'] for kw in self._find_exact_matches(...)}
ExactNormalized(resume_keywords, job_keywords) ==
    LET exact == FindExactMatches(resume_keywords, job_keywords,
                     SomeOrder(CommonKeywords(resume_keywords, job_keywords)))
    IN {exact[i].normalized : i \in 1..Len(exact)}

\* [kw for kw in keywords if kw['normalized'] not in excluded]
RECURSIVE FilterOut(_, _)
FilterOut(keywords, excluded) ==
    IF keywords = <<>> THEN <<>>
    ELSE IF Head(keywords).normalized \in excluded
         THEN FilterOut(Tail(keywords), excluded)
         ELSE <<Head(keywords)>> \o FilterOut(Tail(keywords), excluded)

(***************************************************************************)
(* KeywordMatcher._find_fuzzy_matches: greedy pairing in resume-list order.*)
(***************************************************************************)
\* mutant: the best candidate is kept whatever the threshold
Qualifies_NoThreshold(ratio, best_ratio, threshold) ==
    ratio > best_ratio

\* if ratio > best_ratio and ratio >= self.fuzzy_threshold
Qualifies(ratio, best_ratio, threshold) ==
    ratio > best_ratio /\ ratio >= threshold

\* mutant: the inner loop does not skip the job keywords already consumed
RECURSIVE BestFuzzyMatch_IgnoreProcessed(_, _, _, _, _, _)
BestFuzzyMatch_IgnoreProcessed(resume_kw, job_for_fuzzy, j, processed_job, threshold, best) ==
    IF j > Len(job_for_fuzzy) THEN best
    ELSE LET ratio == Ratio(resume_kw.normalized, job_for_fuzzy[j].normalized)
         IN IF Qualifies(ratio, best.ratio, threshold)
            THEN BestFuzzyMatch_IgnoreProcessed(resume_kw, job_for_fuzzy, j + 1,
                     processed_job, threshold, [match |-> j, ratio |-> ratio])
            ELSE BestFuzzyMatch_IgnoreProcessed(resume_kw, job_for_fuzzy, j + 1,
                     processed_job, threshold, best)

\* the inner loop: best is [match |-> index into job_for_fuzzy or 0, ratio |-> best_ratio]
RECURSIVE BestFuzzyMatch(_, _, _, _, _, _)
BestFuzzyMatch(resume_kw, job_for_fuzzy, j, processed_job, threshold, best) ==
    IF j > Len(job_for_fuzzy) THEN best
    ELSE IF job_for_fuzzy[j].normalized \in processed_job
         THEN BestFuzzyMatch(resume_kw, job_for_fuzzy, j + 1, processed_job,
                             threshold, best)
         ELSE LET ratio == Ratio(resume_kw.normalized, job_for_fuzzy[j].normalized)
              IN IF Qualifies(ratio, best.ratio, threshold)
                 THEN BestFuzzyMatch(resume_kw, job_for_fuzzy, j + 1, processed_job,
                                     threshold, [match |-> j, ratio |-> ratio])
                 ELSE BestFuzzyMatch(resume_kw, job_for_fuzzy, j + 1, processed_job,
                                     threshold, best)

FuzzyMatch(resume_kw, best_match, best_ratio) ==
    [resume_keyword    |-> resume_kw.original,
     job_keyword       |-> best_match.original,
     normalized_resume |-> resume_kw.normalized,
     normalized_job    |-> best_match.normalized,
     match_type        |-> "fuzzy",
     confidence        |-> best_ratio,
     ratio             |-> best_ratio,
     weight            |-> FUZZY_MATCH_WEIGHT,
     resume_importance |-> resume_kw.importance,
     job_importance    |-> best_match.importance,
     color             |-> MATCH_COLORS["fuzzy"],
     resume_index      |-> resume_kw.index,
     job_index         |-> best_match.index]

\* the outer loop: st is [matches, processed_resume, processed_job]
RECURSIVE FuzzyLoop(_, _, _, _, _)
FuzzyLoop(resume_for_fuzzy, job_for_fuzzy, i, threshold, st) ==
    IF i > Len(resume_for_fuzzy) THEN st.matches
    ELSE IF resume_for_fuzzy[i].normalized \in st.processed_resume
         THEN FuzzyLoop(resume_for_fuzzy, job_for_fuzzy, i + 1, threshold, st)
         ELSE LET resume_kw == resume_for_fuzzy[i]
                  best == BestFuzzyMatch(resume_kw, job_for_fuzzy, 1,
                              st.processed_job, threshold,
                              [match |-> 0, ratio |-> 0])
              IN IF best.match # 0
                 THEN LET best_match == job_for_fuzzy[best.match]
                      IN FuzzyLoop(resume_for_fuzzy, job_for_fuzzy, i + 1, threshold,
                            [matches |-> Append(st.matches,
                                            FuzzyMatch(resume_kw, best_match, best.ratio)),
                             processed_resume |->
                                 st.processed_resume \cup {resume_kw.normalized},
                             processed_job |->
                                 st.processed_job \cup {best_match.normalized}])
                 ELSE FuzzyLoop(resume_for_fuzzy, job_for_fuzzy, i + 1, threshold, st)

FindFuzzyMatches(resume_keywords, job_keywords, threshold) ==
    IF ~FUZZYWUZZY_AVAILABLE THEN <<>>
    ELSE LET exact_normalized == ExactNormalized(resume_keywords, job_keywords)
             resume_for_fuzzy == FilterOut(resume_keywords, exact_normalized)
             job_for_fuzzy == FilterOut(job_keywords, exact_normalized)
         IN FuzzyLoop(resume_for_fuzzy, job_for_fuzzy, 1, threshold,
                [matches |-> <<>>, processed_resume |-> {}, processed_job |-> {}])

(***************************************************************************)
(* KeywordMatcher._find_partial_matches: first hit in job-list order.      *)
(***************************************************************************)
\* mutant: the last hit in job-list order instead of the first
RECURSIVE FirstPartial_LastHit(_, _, _, _)
FirstPartial_LastHit(resume_kw, job_for_partial, j, processed_job) ==
    IF j > Len(job_for_partial) THEN 0
    ELSE LET later == FirstPartial_LastHit(resume_kw, job_for_partial, j + 1, processed_job)
         IN IF later # 0 THEN later
            ELSE IF job_for_partial[j].normalized \notin processed_job
                      /\ IsPartialMatch(resume_kw.normalized, job_for_partial[j].normalized)
                 THEN j
                 ELSE 0

\* the inner loop: index into job_for_partial of the first hit, or 0
RECURSIVE FirstPartial(_, _, _, _)
FirstPartial(resume_kw, job_for_partial, j, processed_job) ==
    IF j > Len(job_for_partial) THEN 0
    ELSE IF job_for_partial[j].normalized \in processed_job
         THEN FirstPartial(resume_kw, job_for_partial, j + 1, processed_job)
         ELSE IF IsPartialMatch(resume_kw.normalized, job_for_partial[j].normalized)
              THEN j
              ELSE FirstPartial(resume_kw, job_for_partial, j + 1, processed_job)

PartialMatch(resume_kw, job_kw) ==
    [resume_keyword    |-> resume_kw.original,
     job_keyword       |-> job_kw.original,
     normalized_resume |-> resume_kw.normalized,
     normalized_job    |-> job_kw.normalized,
     match_type        |-> "partial",
     confidence        |-> PARTIAL_CONFIDENCE,
     weight            |-> PARTIAL_MATCH_WEIGHT,
     resume_importance |-> resume_kw.importance,
     job_importance    |-> job_kw.importance,
     color             |-> MATCH_COLORS["partial"],
     resume_index      |-> resume_kw.index,
     job_index         |-> job_kw.index]

RECURSIVE PartialLoop(_, _, _, _)
PartialLoop(resume_for_partial, job_for_partial, i, st) ==
    IF i > Len(resume_for_partial) THEN st.matches
    ELSE IF resume_for_partial[i].normalized \in st.processed_resume
         THEN PartialLoop(resume_for_partial, job_for_partial, i + 1, st)
         ELSE LET resume_kw == resume_for_partial[i]
                  hit == FirstPartial(resume_kw, job_for_partial, 1, st.processed_job)
              IN IF hit # 0
                 THEN LET job_kw == job_for_partial[hit]
                      IN PartialLoop(resume_for_partial, job_for_partial, i + 1,
                            [matches |-> Append(st.matches,
                                            PartialMatch(resume_kw, job_kw)),
                             processed_resume |->
                                 st.processed_resume \cup {resume_kw.normalized},
                             processed_job |->
                                 st.processed_job \cup {job_kw.normalized}])
                 ELSE PartialLoop(resume_for_partial, job_for_partial, i + 1, st)

\* mutant: the resume side of the fuzzy matches is not excluded
AllMatchedResume_ExactOnly(exact_normalized, fuzzy_normalized) ==
    exact_normalized

\* mutant: only the resume side of the fuzzy matches is excluded
AllMatchedResume_FuzzyOnly(exact_normalized, fuzzy_normalized) ==
    fuzzy_normalized

\* all_matched_resume = exact_normalized.union(fuzzy_normalized)
AllMatchedResume(exact_normalized, fuzzy_normalized) ==
    exact_normalized \cup fuzzy_normalized

\* mutant: exactly matched job keywords stay candidates of the partial stage
JobForPartial_Unfiltered(job_keywords, exact_normalized) ==
    job_keywords

\* job_for_partial = [kw for kw in job_keywords if kw['normalized'] not in exact_normalized]
JobForPartial(job_keywords, exact_normalized) ==
    FilterOut(job_keywords, exact_normalized)

FindPartialMatches(resume_keywords, job_keywords, threshold) ==
    LET exact_normalized == ExactNormalized(resume_keywords, job_keywords)
        fuzzy_matches == FindFuzzyMatches(resume_keywords, job_keywords, threshold)
        fuzzy_normalized ==
            {fuzzy_matches[i].normalized_resume : i \in 1..Len(fuzzy_matches)}
        all_matched_resume == AllMatchedResume(exact_normalized, fuzzy_normalized)
        resume_for_partial == FilterOut(resume_keywords, all_matched_resume)
        job_for_partial == JobForPartial(job_keywords, exact_normalized)
    IN PartialLoop(resume_for_partial, job_for_partial, 1,
           [matches |-> <<>>, processed_resume |-> {}, processed_job |-> {}])

(***************************************************************************)
(* KeywordMatcher._find_missing_keywords                                   *)
(***************************************************************************)
\* mutant: only the exact matches count as matched job keywords
MatchedJobKeywords_ExactOnly(exact_matches, fuzzy_matches, partial_matches) ==
    {exact_matches[i].normalized : i \in 1..Len(exact_matches)}

MatchedJobKeywords(exact_matches, fuzzy_matches, partial_matches) ==
    {exact_matches[i].normalized : i \in 1..Len(exact_matches)}
      \cup {fuzzy_matches[i].normalized_job : i \in 1..Len(fuzzy_matches)}
      \cup {partial_matches[i].normalized_job : i \in 1..Len(partial_matches)}

MissingKeyword(job_kw) ==
    [keyword    |-> job_kw.original,
     normalized |-> job_kw.normalized,
     importance |-> job_kw.importance,
     type       |-> job_kw.type,
     color      |-> MATCH_COLORS["missing"],
     job_index  |-> job_kw.index]

RECURSIVE MissingLoop(_, _)
MissingLoop(job_keywords, matched_job_keywords) ==
    IF job_keywords = <<>> THEN <<>>
    ELSE IF Head(job_keywords).normalized \notin matched_job_keywords
         THEN <<MissingKeyword(Head(job_keywords))>>
                \o MissingLoop(Tail(job_keywords), matched_job_keywords)
         ELSE MissingLoop(Tail(job_keywords), matched_job_keywords)

FindMissingKeywords(resume_keywords, job_keywords, exact_matches, fuzzy_matches, partial_matches) ==
    MissingLoop(job_keywords,
        MatchedJobKeywords(exact_matches, fuzzy_matches, partial_matches))

(***************************************************************************)
(* KeywordMatcher._calculate_scores.  A weighted score is weight (tenths)  *)
(* times confidence (hundredths); a percentage is the exact fraction       *)
(* num/den.                                                                *)
(***************************************************************************)
Frac(n, d) == [num |-> n, den |-> d]
FracZero == Frac(0, 1)
FracLeq(x, y) == x.num * y.den <= y.num * x.den
FracEq(x, y) == x.num * y.den = y.num * x.den
FracOfInt(n) == Frac(n, 1)

\* mutant: the confidence of a match is taken as 1.0
RECURSIVE WeightedSum_FullConfidence(_)
WeightedSum_FullConfidence(matches) ==
    IF matches = <<>> THEN 0
    ELSE Head(matches).weight * CONFIDENCE_SCALE
           + WeightedSum_FullConfidence(Tail(matches))

RECURSIVE WeightedSum(_)
WeightedSum(matches) ==
    IF matches = <<>> THEN 0
    ELSE Head(matches).weight * Head(matches).confidence + WeightedSum(Tail(matches))

\* (total_matches / total) * 100, or 0.0 when total is 0
PercentageOf(total_matches, total) ==
    IF total > 0 THEN Frac(total_matches * 100, total) ELSE FracZero

\* (total_weighted_score / max_possible_score) * 100, or 0.0
OverallScore(total_weighted_score, total_job_keywords) ==
    LET max_possible_score == total_job_keywords * EXACT_MATCH_WEIGHT
    IN IF max_possible_score > 0
       THEN Frac(total_weighted_score * 100, max_possible_score * CONFIDENCE_SCALE)
       ELSE FracZero

CalculateScores(exact_matches, fuzzy_matches, partial_matches, total_resume_keywords, total_job_keywords) ==
    LET exact_score == WeightedSum(exact_matches)
        fuzzy_score == WeightedSum(fuzzy_matches)
        partial_score == WeightedSum(partial_matches)
        total_weighted_score == exact_score + fuzzy_score + partial_score
        total_matches ==
            Len(exact_matches) + Len(fuzzy_matches) + Len(partial_matches)
    IN [exact_score           |-> exact_score,
        fuzzy_score           |-> fuzzy_score,
        partial_score         |-> partial_score,
        total_weighted_score  |-> total_weighted_score,
        match_percentage      |-> PercentageOf(total_matches, total_job_keywords),
        coverage_percentage   |-> PercentageOf(total_matches, total_job_keywords),
        resume_utilization    |-> PercentageOf(total_matches, total_resume_keywords),
        overall_score         |-> OverallScore(total_weighted_score, total_job_keywords),
        total_matches         |-> total_matches,
        exact_matches_count   |-> Len(exact_matches),
        fuzzy_matches_count   |-> Len(fuzzy_matches),
        partial_matches_count |-> Len(partial_matches)]

(***************************************************************************)
(* ResumeScorer.score                                                      *)
(***************************************************************************)
Score(match_results) ==
    IF "scores" \in DOMAIN match_results
         /\ "overall_score" \in DOMAIN match_results.scores
    THEN match_results.scores.overall_score
    ELSE FracZero

(***************************************************************************)
(* KeywordMatcher._assess_overall_match.  The score is a fraction; the     *)
(* cut-offs 90, 80, 70, 60 and 50 are those of the if/elif chain.          *)
(***************************************************************************)
AtLeast(score, n) == FracLeq(FracOfInt(n), score)
Below(score, n) == ~AtLeast(score, n)

\* mutant: the lower bound of each band is exclusive
AssessOverallMatch_Exclusive(overall_score) ==
    IF ~FracLeq(overall_score, FracOfInt(90)) THEN "Excellent Match"
    ELSE IF ~FracLeq(overall_score, FracOfInt(80)) THEN "Very Good Match"
    ELSE IF ~FracLeq(overall_score, FracOfInt(70)) THEN "Good Match"
    ELSE IF ~FracLeq(overall_score, FracOfInt(60)) THEN "Fair Match"
    ELSE IF ~FracLeq(overall_score, FracOfInt(50)) THEN "Poor Match"
    ELSE "Very Poor Match"

AssessOverallMatch(overall_score) ==
    IF AtLeast(overall_score, 90) THEN "Excellent Match"
    ELSE IF AtLeast(overall_score, 80) THEN "Very Good Match"
    ELSE IF AtLeast(overall_score, 70) THEN "Good Match"
    ELSE IF AtLeast(overall_score, 60) THEN "Fair Match"
    ELSE IF AtLeast(overall_score, 50) THEN "Poor Match"
    ELSE "Very Poor Match"

(***************************************************************************)
(* KeywordMatcher._generate_recommendations.  The f-string with the count  *)
(* is the tuple of its parts.                                              *)
(***************************************************************************)
ScoreRecommendation(overall_score) ==
    IF Below(overall_score, 50)
    THEN "Overall match is low. Consider adding more relevant keywords to your resume."
    ELSE IF Below(overall_score, 70)
    THEN "Match is moderate. Focus on adding high-importance missing keywords."
    ELSE "Good match! Your resume aligns well with the job requirements."

\* mutant: importance 0.8 itself is not high
HighImportanceMissing_Above(missing_keywords) ==
    SelectSeq(missing_keywords, LAMBDA kw : kw.importance > 8)

\* [kw for kw in missing_keywords if kw['importance'] >= 0.8]
HighImportanceMissing(missing_keywords) ==
    SelectSeq(missing_keywords, LAMBDA kw : kw.importance >= 8)

GenerateRecommendations(missing_keywords, scores) ==
    LET high_importance_missing == HighImportanceMissing(missing_keywords)
    IN <<ScoreRecommendation(scores.overall_score)>>
         \o (IF missing_keywords # <<>> /\ high_importance_missing # <<>>
             THEN << <<"Add ", Len(high_importance_missing),
                       " high-importance keywords to improve your match.">> >>
             ELSE <<>>)
         \o (IF missing_keywords # <<>> /\ Len(missing_keywords) > 10
             THEN <<"Consider adding more relevant skills and technologies to your resume.">>
             ELSE <<>>)

(***************************************************************************)
(* KeywordMatcher._generate_summary                                        *)
(***************************************************************************)
Max(a, b) == IF a >= b THEN a ELSE b

\* mutant: the importance of the resume side alone
MatchImportance_ResumeSide(match) ==
    Get(match, "resume_importance", 0)

\* max(match.get('resume_importance', 0), match.get('job_importance', 0))
MatchImportance(match) ==
    Max(Get(match, "resume_importance", 0), Get(match, "job_importance", 0))

GenerateSummary(exact_matches, fuzzy_matches, partial_matches, missing_keywords, scores) ==
    LET all_matches == exact_matches \o fuzzy_matches \o partial_matches
        high_importance_matches ==
            SelectSeq(all_matches, LAMBDA m : MatchImportance(m) >= 8)
        medium_importance_matches ==
            SelectSeq(all_matches,
                LAMBDA m : MatchImportance(m) < 8 /\ MatchImportance(m) >= 5)
        low_importance_matches ==
            SelectSeq(all_matches, LAMBDA m : MatchImportance(m) < 5)
    IN [high_importance_matches   |-> Len(high_importance_matches),
        medium_importance_matches |-> Len(medium_importance_matches),
        low_importance_matches    |-> Len(low_importance_matches),
        missing_keywords_count    |-> Len(missing_keywords),
        recommendations           |-> GenerateRecommendations(missing_keywords, scores),
        overall_assessment        |-> AssessOverallMatch(scores.overall_score)]

(***************************************************************************)
(* KeywordMatcher.match_keywords                                           *)
(***************************************************************************)
\* mutant: the share of matched job keywords as the headline figure
TopLevelMatchPercentage_Share(scores) == scores.match_percentage

\* 'match_percentage': scores['overall_score']
TopLevelMatchPercentage(scores) == scores.overall_score

MatchResults(resume_keywords_in, job_keywords_in, threshold, order) ==
    LET resume_normalized == NormalizeKeywords(resume_keywords_in)
        job_normalized == NormalizeKeywords(job_keywords_in)
        exact_matches == FindExactMatches(resume_normalized, job_normalized, order)
        fuzzy_matches == FindFuzzyMatches(resume_normalized, job_normalized, threshold)
        partial_matches ==
            FindPartialMatches(resume_normalized, job_normalized, threshold)
        missing_keywords ==
            FindMissingKeywords(resume_normalized, job_normalized,
                                exact_matches, fuzzy_matches, partial_matches)
        scores == CalculateScores(exact_matches, fuzzy_matches, partial_matches,
                                  Len(resume_normalized), Len(job_normalized))
    IN [exact_matches         |-> exact_matches,
        fuzzy_matches         |-> fuzzy_matches,
        partial_matches       |-> partial_matches,
        missing_keywords      |-> missing_keywords,
        scores                |-> scores,
        summary               |-> GenerateSummary(exact_matches, fuzzy_matches,
                                     partial_matches, missing_keywords, scores),
        total_resume_keywords |-> Len(resume_normalized),
        total_job_keywords    |-> Len(job_normalized),
        match_percentage      |-> TopLevelMatchPercentage(scores)]

(***************************************************************************)
(* Inputs.  The keyword lists the caller hands to match_keywords are drawn *)
(* from two pools of keyword records; the texts are chosen so that every   *)
(* tier occurs: equal strings up to case and padding, near-duplicates,     *)
(* substrings, shared words, a whitespace-only text, an empty text and     *)
(* records without the optional keys.                                      *)
(***************************************************************************)
ResumePool ==
    { [text |-> <<"a", "b", "b">>, importance |-> 9, type |-> "entity", frequency |-> 2],
      [text |-> <<"a", "b", "a", "b">>, importance |-> 7, type |-> "token", frequency |-> 1],
      [text |-> <<" ", "A">>, importance |-> 3, type |-> "token"],
      [text |-> <<"c", " ", "d">>, importance |-> 8, type |-> "noun_phrase", frequency |-> 1],
      [text |-> <<" ">>, importance |-> 5, type |-> "basic", frequency |-> 1] }

JobPool ==
    { [text |-> <<"a", "b", "b">>, importance |-> 9, type |-> "entity", frequency |-> 1],
      [text |-> <<"A", "B", "B", " ">>, importance |-> 4, type |-> "token", frequency |-> 3],
      [text |-> <<"A">>, frequency |-> 2],
      [text |-> <<"d", " ", "f", "-">>, importance |-> 6, type |-> "noun_phrase", frequency |-> 1],
      [text |-> <<>>, importance |-> 10, type |-> "basic", frequency |-> 1] }

Thresholds == {0, MIN_FUZZY_MATCH_RATIO, 86, 87}

KeywordLists(pool, max) == UNION {[1..n -> pool] : n \in 0..max}

NoResults == [status |-> "none"]

(***************************************************************************)
(* Set iteration order.  common_keywords is a set of str, and CPython      *)
(* salts the hash of a str with a seed drawn when the interpreter starts   *)
(* (PYTHONHASHSEED), so the order in which the loop of                     *)
(* _find_exact_matches visits the set is fixed within one process and can  *)
(* differ in the next.  Two seeds stand for the orders the interpreter can *)
(* produce.                                                                *)
(***************************************************************************)
Reverse(seq) == [i \in 1..Len(seq) |-> seq[Len(seq) + 1 - i]]

HashSeeds == {"seed_a", "seed_b"}

SetIterationOrder(S, seed) ==
    IF seed = "seed_a" THEN SomeOrder(S) ELSE Reverse(SomeOrder(S))

(***************************************************************************)
(* helpers.clean_text and helpers.normalize_keyword.  \w is every          *)
(* character that is neither whitespace nor punctuation.                   *)
(***************************************************************************)
Punctuation ==
    {"-", ".", ",", ";", ":", "!", "?", "(", ")", "[", "]", "{", "}", "@", "#", "+"}

IsWord(c) == ~IsSpace(c) /\ c \notin Punctuation

\* re.sub(r'\s+', ' ', text)
RECURSIVE CollapseWhitespace(_)
CollapseWhitespace(text) ==
    IF text = <<>> THEN <<>>
    ELSE IF IsSpace(Head(text))
         THEN <<" ">> \o CollapseWhitespace(LStrip(Tail(text)))
         ELSE <<Head(text)>> \o CollapseWhitespace(Tail(text))

\* re.sub(r'[^\w\s...]', ' ', text), kept being the punctuation of the class
ReplaceSpecial(text, kept) ==
    [i \in 1..Len(text) |->
        IF IsWord(text[i]) \/ IsSpace(text[i]) \/ text[i] \in kept
        THEN text[i] ELSE " "]

\* re.sub(r'\n+', '\n', text)
RECURSIVE CollapseNewlines(_)
CollapseNewlines(text) ==
    IF Len(text) < 2 THEN text
    ELSE IF text[1] = "\n" /\ text[2] = "\n" THEN CollapseNewlines(Tail(text))
    ELSE <<Head(text)>> \o CollapseNewlines(Tail(text))

CleanTextKept == {"-", ".", ",", ";", ":", "!", "?", "(", ")", "[", "]", "{", "}"}
NormalizeKeywordKept == {"-", "."}

CleanText(text) ==
    IF text = <<>> THEN <<>>
    ELSE Strip(CollapseNewlines(ReplaceSpecial(CollapseWhitespace(text), CleanTextKept)))

NormalizeKeyword(keyword) ==
    IF keyword = <<>> THEN <<>>
    ELSE Strip(ReplaceSpecial(CollapseWhitespace(Lower(keyword)), NormalizeKeywordKept))

(***************************************************************************)
(* KeywordAnalyzer._post_process_keywords and the tail of                  *)
(* extract_keywords.  Importances are in tenths.                           *)
(***************************************************************************)
MIN_KEYWORD_LENGTH == 3
MAX_KEYWORD_LENGTH == 50
MAX_FREQUENCY_BOOST == 3
DEFAULT_MAX_KEYWORDS == 100

\* keyword_counts[text.lower()]
KeywordCount(keywords, normalized_text) ==
    Cardinality({i \in 1..Len(keywords) : Lower(keywords[i].text) = normalized_text})

\* base_importance + min(frequency * 0.1, 0.3)
FinalImportance(base_importance, frequency) ==
    base_importance + Min(frequency, MAX_FREQUENCY_BOOST)

ProcessedKeyword(keywords, keyword) ==
    LET normalized_text == Lower(keyword.text)
        frequency == KeywordCount(keywords, normalized_text)
    IN [text        |-> keyword.text,
        normalized  |-> normalized_text,
        type        |-> Get(keyword, "type", "unknown"),
        importance  |-> FinalImportance(Get(keyword, "importance", 5), frequency),
        frequency   |-> frequency,
        entity_type |-> Get(keyword, "entity_type", "None"),
        pos         |-> Get(keyword, "pos", "None"),
        lemma       |-> Get(keyword, "lemma", normalized_text)]

\* the loop that skips the keywords that are too short or too long
Processed(keywords) ==
    LET kept == SelectSeq(keywords,
                    LAMBDA kw : ~(Len(kw.text) < MIN_KEYWORD_LENGTH
                                   \/ Len(kw.text) > MAX_KEYWORD_LENGTH))
    IN [i \in 1..Len(kept) |-> ProcessedKeyword(keywords, kept[i])]

\* the loop that keeps the first keyword of each normalized text
RECURSIVE UniqueKeywords(_, _)
UniqueKeywords(processed, seen) ==
    IF processed = <<>> THEN <<>>
    ELSE IF Head(processed).normalized \in seen
         THEN UniqueKeywords(Tail(processed), seen)
         ELSE <<Head(processed)>>
                \o UniqueKeywords(Tail(processed), seen \cup {Head(processed).normalized})

PostProcessKeywords(keywords) == UniqueKeywords(Processed(keywords), {})

\* sorted(..., key=importance, reverse=True): stable, greatest first
RECURSIVE InsertByImportance(_, _)
InsertByImportance(sorted, keyword) ==
    IF sorted = <<>> THEN <<keyword>>
    ELSE IF Head(sorted).importance >= keyword.importance
         THEN <<Head(sorted)>> \o InsertByImportance(Tail(sorted), keyword)
         ELSE <<keyword>> \o sorted

RECURSIVE SortedByImportance(_)
SortedByImportance(keywords) ==
    IF keywords = <<>> THEN <<>>
    ELSE InsertByImportance(SortedByImportance(SubSeq(keywords, 1, Len(keywords) - 1)),
                            keywords[Len(keywords)])

\* extract_keywords after the extraction method has run
ExtractKeywords(keywords, max_keywords) ==
    LET sorted_keywords == SortedByImportance(PostProcessKeywords(keywords))
    IN SubSeq(sorted_keywords, 1, Min(Len(sorted_keywords), max_keywords))

\* a helper has not been called yet, or it returned value
NoValue == [status |-> "none"]
Returned(value) == [status |-> "returned", value |-> value]

VARIABLES
    fuzzy_threshold,    \* KeywordMatcher.fuzzy_threshold
    resume_keywords,    \* the resume keyword list handed to match_keywords
    job_keywords,       \* the job keyword list handed to match_keywords
    results,            \* the bundle match_keywords returned, or NoResults
    hash_seed,          \* the str hash seed of the running interpreter
    calls,              \* calls of match_keywords made on the matcher
    previous_results,   \* what the previous process returned for the inputs
    summary_score,      \* scores['overall_score'] handed to the summary helpers
    summary_missing,    \* missing_keywords handed to _generate_recommendations
    overall_assessment, \* the label _assess_overall_match returned
    recommendations,    \* the list _generate_recommendations returned
    raw_keywords,       \* the keywords an extraction method of the analyzer found
    extracted_keywords, \* what KeywordAnalyzer.extract_keywords returned
    helper_text,        \* the string handed to clean_text and normalize_keyword
    cleaned_text,       \* what clean_text returned
    normalized_keyword, \* what normalize_keyword returned
    partial_keyword1,   \* keyword1 handed to _is_partial_match
    partial_keyword2,   \* keyword2 handed to _is_partial_match
    partial_match,      \* what _is_partial_match returned
    max_attempts,       \* retry_operation's max_attempts
    delay,              \* retry_operation's delay, in seconds
    attempt,            \* retry_operation's loop variable
    call_log,           \* the outcome of every call of operation, in order
    sleeps,             \* the arguments of every time.sleep, in order
    last_exception,     \* retry_operation's last_exception
    retry_outcome,      \* what retry_operation returned or raised
    file_path,          \* FileUploadWidget.file_path
    job_description,    \* the text of MainWindow.job_description_edit
    analyze_button,     \* whether MainWindow.analyze_button is enabled
    analysis_worker,    \* MainWindow.analysis_worker
    workers,            \* the state of every AnalysisWorker created so far
    application,        \* whether the application runs, was closed or aborted
    worker_inputs,      \* resume_path and job_description of the AnalysisWorker
    run_stage,          \* the position of AnalysisWorker.run
    emitted_signals     \* the signals AnalysisWorker.run has emitted, in order

matcherVars == <<fuzzy_threshold, resume_keywords, job_keywords, results>>
processVars == <<hash_seed, calls, previous_results>>
summaryVars == <<summary_score, summary_missing, overall_assessment, recommendations>>
analyzerVars == <<raw_keywords, extracted_keywords>>
helperVars == <<helper_text, cleaned_text, normalized_keyword>>
partialVars == <<partial_keyword1, partial_keyword2, partial_match>>
retryVars == <<max_attempts, delay, attempt, call_log, sleeps, last_exception, retry_outcome>>
guiVars == <<file_path, job_description, analyze_button, analysis_worker, workers, application>>
workerVars == <<worker_inputs, run_stage, emitted_signals>>
vars == <<matcherVars, processVars, summaryVars, analyzerVars, helperVars, partialVars, retryVars, guiVars, workerVars>>

\* the parts of the program a specification does not exercise stay idle
NoMatcher ==
    /\ fuzzy_threshold = MIN_FUZZY_MATCH_RATIO
    /\ resume_keywords = <<>>
    /\ job_keywords = <<>>
    /\ results = NoResults

\* one call in a process whose hash seed is not observed
SingleCall ==
    /\ hash_seed = "unobserved"
    /\ calls = 0
    /\ previous_results = NoResults

NoSummary ==
    /\ summary_score = FracZero
    /\ summary_missing = <<>>
    /\ overall_assessment = NoValue
    /\ recommendations = NoValue

NoAnalyzer ==
    /\ raw_keywords = <<>>
    /\ extracted_keywords = NoValue

NoHelper ==
    /\ helper_text = <<>>
    /\ cleaned_text = NoValue
    /\ normalized_keyword = NoValue

NoPartial ==
    /\ partial_keyword1 = <<>>
    /\ partial_keyword2 = <<>>
    /\ partial_match = NoValue

NoRetry ==
    /\ max_attempts = 0
    /\ delay = 0
    /\ attempt = 0
    /\ call_log = <<>>
    /\ sleeps = <<>>
    /\ last_exception = "None"
    /\ retry_outcome = NoValue

NoGui ==
    /\ file_path = "None"
    /\ job_description = <<>>
    /\ analyze_button = TRUE
    /\ analysis_worker = 0
    /\ workers = <<>>
    /\ application = "not started"

NoWorker ==
    /\ worker_inputs = <<>>
    /\ run_stage = "not started"
    /\ emitted_signals = <<>>

Init ==
    /\ fuzzy_threshold \in Thresholds
    /\ resume_keywords \in KeywordLists(ResumePool, MaxResume)
    /\ job_keywords \in KeywordLists(JobPool, MaxJob)
    /\ results = NoResults
    /\ SingleCall /\ NoSummary /\ NoAnalyzer /\ NoHelper
    /\ NoPartial /\ NoRetry /\ NoGui /\ NoWorker

MatchKeywords ==
    /\ results = NoResults
    /\ \E order \in IterationOrders(
                        CommonKeywords(NormalizeKeywords(resume_keywords),
                                       NormalizeKeywords(job_keywords))) :
          results' = MatchResults(resume_keywords, job_keywords,
                                  fuzzy_threshold, order)
    /\ UNCHANGED <<fuzzy_threshold, resume_keywords, job_keywords>>
    /\ UNCHANGED <<processVars, summaryVars, analyzerVars, helperVars, partialVars, retryVars, guiVars, workerVars>>

Next == MatchKeywords

Spec == Init /\ [][Next]_vars

(***************************************************************************)
(* KeywordMatcher._assess_overall_match on its own, over a grid of scores  *)
(* that holds every cut-off and both of its neighbours.                    *)
(***************************************************************************)
AssessScores == {Frac(n, 2) : n \in 0..(2 * MaxScore)}

InitAssess ==
    /\ NoMatcher /\ SingleCall /\ NoAnalyzer /\ NoHelper
    /\ NoPartial /\ NoRetry /\ NoGui /\ NoWorker
    /\ summary_score \in AssessScores
    /\ summary_missing = <<>>
    /\ overall_assessment = NoValue
    /\ recommendations = NoValue

AssessOverallMatchCall ==
    /\ overall_assessment = NoValue
    /\ overall_assessment' = Returned(AssessOverallMatch(summary_score))
    /\ UNCHANGED <<summary_score, summary_missing, recommendations>>
    /\ UNCHANGED <<matcherVars, processVars, analyzerVars, helperVars, partialVars, retryVars, guiVars, workerVars>>

NextAssess == AssessOverallMatchCall

SpecAssess == InitAssess /\ [][NextAssess]_vars

(***************************************************************************)
(* KeywordMatcher._generate_recommendations on its own: the scores around  *)
(* its two cut-offs, and missing lists of up to MaxMissing keywords whose  *)
(* importance is 0.8 or just below.                                        *)
(***************************************************************************)
RecommendScores ==
    {score \in AssessScores : score.num \in {0, 99, 100, 139, 140, 2 * MaxScore}}

MissingPool ==
    { [keyword |-> <<"k">>, importance |-> 7],
      [keyword |-> <<"k">>, importance |-> 8] }

InitRecommend ==
    /\ NoMatcher /\ SingleCall /\ NoAnalyzer /\ NoHelper
    /\ NoPartial /\ NoRetry /\ NoGui /\ NoWorker
    /\ summary_score \in RecommendScores
    /\ summary_missing \in KeywordLists(MissingPool, MaxMissing)
    /\ overall_assessment = NoValue
    /\ recommendations = NoValue

GenerateRecommendationsCall ==
    /\ recommendations = NoValue
    /\ recommendations' =
          Returned(GenerateRecommendations(summary_missing,
                                           [overall_score |-> summary_score]))
    /\ UNCHANGED <<summary_score, summary_missing, overall_assessment>>
    /\ UNCHANGED <<matcherVars, processVars, analyzerVars, helperVars, partialVars, retryVars, guiVars, workerVars>>

NextRecommend == GenerateRecommendationsCall

SpecRecommend == InitRecommend /\ [][NextRecommend]_vars

(***************************************************************************)
(* match_keywords on lists made of the keywords of the worked scenario:    *)
(* resume python (0.9), django (0.7), sql (0.6); job python (0.9),         *)
(* flask (0.8), sql (0.6); threshold 70.                                   *)
(***************************************************************************)
Python == [text |-> <<"p", "y", "t", "h", "o", "n">>, importance |-> 9]
Django == [text |-> <<"d", "j", "a", "n", "g", "o">>, importance |-> 7]
Sql == [text |-> <<"s", "q", "l">>, importance |-> 6]
Flask == [text |-> <<"f", "l", "a", "s", "k">>, importance |-> 8]

ScenarioResume == <<Python, Django, Sql>>
ScenarioJob == <<Python, Flask, Sql>>

InitScenario ==
    /\ fuzzy_threshold = MIN_FUZZY_MATCH_RATIO
    /\ resume_keywords \in KeywordLists({Python, Django, Sql}, ScenarioLen)
    /\ job_keywords \in KeywordLists({Python, Flask, Sql}, ScenarioLen)
    /\ results = NoResults
    /\ SingleCall /\ NoSummary /\ NoAnalyzer /\ NoHelper
    /\ NoPartial /\ NoRetry /\ NoGui /\ NoWorker

SpecScenario == InitScenario /\ [][Next]_vars

(***************************************************************************)
(* Repeated calls on one matcher, and the same inputs analysed again after *)
(* the application has been started anew (a new interpreter, a new hash    *)
(* seed, a new KeywordMatcher with the default threshold).                 *)
(***************************************************************************)
RerunResumePool == {kw \in ResumePool : Get(kw, "type", "unknown") \in {"entity", "token"}}
RerunJobPool == {kw \in JobPool : Get(kw, "type", "unknown") \in {"entity", "token", "unknown"}}

InitRerun ==
    /\ fuzzy_threshold = MIN_FUZZY_MATCH_RATIO
    /\ resume_keywords \in KeywordLists(RerunResumePool, MaxResume)
    /\ job_keywords \in KeywordLists(RerunJobPool, MaxJob)
    /\ results = NoResults
    /\ hash_seed \in HashSeeds
    /\ calls = 0
    /\ previous_results = NoResults
    /\ NoSummary /\ NoAnalyzer /\ NoHelper
    /\ NoPartial /\ NoRetry /\ NoGui /\ NoWorker

\* what match_keywords returns in a process with the given hash seed
ResultsInProcess(seed) ==
    MatchResults(resume_keywords, job_keywords, fuzzy_threshold,
                 SetIterationOrder(CommonKeywords(NormalizeKeywords(resume_keywords),
                                                  NormalizeKeywords(job_keywords)),
                                   seed))

\* the job records of which the last call reported no match
Unconsumed ==
    SelectSeq(job_keywords,
        LAMBDA kw : \E i \in 1..Len(results'.missing_keywords) :
                       results'.missing_keywords[i].keyword = Get(kw, "text", <<>>))

\* mutant: the call removes the job records it matched from the caller's list
MatchKeywordsInProcess_Consuming ==
    /\ calls < MaxCalls
    /\ results' = ResultsInProcess(hash_seed)
    /\ calls' = calls + 1
    /\ job_keywords' = Unconsumed
    /\ UNCHANGED <<fuzzy_threshold, resume_keywords, hash_seed, previous_results>>
    /\ UNCHANGED <<summaryVars, analyzerVars, helperVars, partialVars, retryVars, guiVars, workerVars>>

MatchKeywordsInProcess ==
    /\ calls < MaxCalls
    /\ results' = ResultsInProcess(hash_seed)
    /\ calls' = calls + 1
    /\ UNCHANGED <<fuzzy_threshold, resume_keywords, job_keywords>>
    /\ UNCHANGED <<hash_seed, previous_results>>
    /\ UNCHANGED <<summaryVars, analyzerVars, helperVars, partialVars, retryVars, guiVars, workerVars>>

RestartProcess ==
    /\ results # NoResults
    /\ previous_results = NoResults
    /\ hash_seed' \in HashSeeds
    /\ calls' = 0
    /\ previous_results' = results
    /\ results' = NoResults
    /\ fuzzy_threshold' = MIN_FUZZY_MATCH_RATIO
    /\ UNCHANGED <<resume_keywords, job_keywords>>
    /\ UNCHANGED <<summaryVars, analyzerVars, helperVars, partialVars, retryVars, guiVars, workerVars>>

NextRerun ==
    \/ MatchKeywordsInProcess
    \/ RestartProcess

SpecRerun == InitRerun /\ [][NextRerun]_vars

(***************************************************************************)
(* KeywordAnalyzer.extract_keywords.  The extraction methods rest on       *)
(* spaCy, NLTK or str.split, so what they find in a text is the            *)
(* environment's choice: spaCy yields entities (0.9), then noun phrases    *)
(* (0.8), then tokens (0.7); NLTK yields tokens (0.7); the basic method    *)
(* yields words (0.5).  The text is lowercase after _preprocess_text.      *)
(***************************************************************************)
LongText == [i \in 1..(MAX_KEYWORD_LENGTH + 1) |-> "x"]

SpacyPool ==
    { [text |-> <<"a", "b", "c">>, type |-> "entity", entity_type |-> "ORG", importance |-> 9],
      [text |-> <<"a", "b">>, type |-> "entity", entity_type |-> "GPE", importance |-> 9],
      [text |-> <<"a", "b", "c">>, type |-> "noun_phrase", importance |-> 8],
      [text |-> LongText, type |-> "noun_phrase", importance |-> 8],
      [text |-> <<"a", "b", "c">>, type |-> "token", pos |-> "NOUN", importance |-> 7],
      [text |-> <<"a", "b", "d">>, type |-> "token", pos |-> "ADJ", importance |-> 7] }

NltkPool ==
    { [text |-> <<"a", "b", "c">>, lemma |-> <<"a", "b">>, type |-> "token", pos |-> "NNS", importance |-> 7],
      [text |-> <<"a", "b", "d">>, lemma |-> <<"a", "b", "d">>, type |-> "token", pos |-> "JJ", importance |-> 7] }

BasicPool ==
    { [text |-> <<"a", "b", "c">>, type |-> "basic", importance |-> 5],
      [text |-> <<"a", "b", "d">>, type |-> "basic", importance |-> 5] }

\* entities come first, then noun phrases, then tokens
SpacyOrdered(keywords) ==
    \A i \in 1..Len(keywords) : \A k \in 1..Len(keywords) :
        i < k => keywords[i].importance >= keywords[k].importance

RawKeywordLists ==
    {keywords \in KeywordLists(SpacyPool, MaxRaw) : SpacyOrdered(keywords)}
      \cup KeywordLists(NltkPool, MaxRaw)
      \cup KeywordLists(BasicPool, MaxRaw)

InitExtract ==
    /\ NoMatcher /\ SingleCall /\ NoSummary /\ NoHelper
    /\ NoPartial /\ NoRetry /\ NoGui /\ NoWorker
    /\ raw_keywords \in RawKeywordLists
    /\ extracted_keywords = NoValue

ExtractKeywordsCall ==
    /\ extracted_keywords = NoValue
    /\ extracted_keywords' = Returned(ExtractKeywords(raw_keywords, DEFAULT_MAX_KEYWORDS))
    /\ UNCHANGED raw_keywords
    /\ UNCHANGED <<matcherVars, processVars, summaryVars, helperVars, partialVars, retryVars, guiVars, workerVars>>

NextExtract == ExtractKeywordsCall

SpecExtract == InitExtract /\ [][NextExtract]_vars

(***************************************************************************)
(* The two string helpers on every string of up to MaxTextLen characters   *)
(* over letters of both cases, a space, a line break, a punctuation mark   *)
(* only clean_text keeps and one neither keeps.                            *)
(***************************************************************************)
HelperAlphabet == {"a", "A", " ", "\n", ",", "@"}

Texts == UNION {[1..n -> HelperAlphabet] : n \in 0..MaxTextLen}

InitHelpers ==
    /\ NoMatcher /\ SingleCall /\ NoSummary /\ NoAnalyzer
    /\ NoPartial /\ NoRetry /\ NoGui /\ NoWorker
    /\ helper_text \in Texts
    /\ cleaned_text = NoValue
    /\ normalized_keyword = NoValue

CleanTextCall ==
    /\ cleaned_text = NoValue
    /\ cleaned_text' = Returned(CleanText(helper_text))
    /\ UNCHANGED <<helper_text, normalized_keyword>>
    /\ UNCHANGED <<matcherVars, processVars, summaryVars, analyzerVars, partialVars, retryVars, guiVars, workerVars>>

NormalizeKeywordCall ==
    /\ normalized_keyword = NoValue
    /\ normalized_keyword' = Returned(NormalizeKeyword(helper_text))
    /\ UNCHANGED <<helper_text, cleaned_text>>
    /\ UNCHANGED <<matcherVars, processVars, summaryVars, analyzerVars, partialVars, retryVars, guiVars, workerVars>>

NextHelpers ==
    \/ CleanTextCall
    \/ NormalizeKeywordCall

SpecHelpers == InitHelpers /\ [][NextHelpers]_vars

(***************************************************************************)
(* The same call on job descriptions that yield no usable keyword: every   *)
(* job record has a missing, empty or whitespace-only text.                *)
(***************************************************************************)
BlankJobPool ==
    { [text |-> <<>>, importance |-> 8, type |-> "basic", frequency |-> 1],
      [text |-> <<" ">>, importance |-> 8, type |-> "basic", frequency |-> 1],
      [text |-> <<" ", " ">>, importance |-> 4, type |-> "token", frequency |-> 1],
      [importance |-> 6, type |-> "token", frequency |-> 1] }

InitBlank ==
    /\ fuzzy_threshold \in Thresholds
    /\ resume_keywords \in KeywordLists(ResumePool, MaxResume)
    /\ job_keywords \in KeywordLists(BlankJobPool, MaxJob)
    /\ results = NoResults
    /\ SingleCall /\ NoSummary /\ NoAnalyzer /\ NoHelper
    /\ NoPartial /\ NoRetry /\ NoGui /\ NoWorker

SpecBlank == InitBlank /\ [][Next]_vars

(***************************************************************************)
(* _is_partial_match on its own.  Its arguments are the 'normalized'       *)
(* fields of two keywords, text.lower().strip() of keyword texts.          *)
(***************************************************************************)
PartialTexts ==
    { <<"D", "e", "v", "e", "l", "o", "p", "e", "r">>,
      <<"s", "e", "n", "i", "o", "r", " ", "d", "e", "v", "e", "l", "o", "p", "e", "r">>,
      <<"P", "r", "o", "j", "e", "c", "t", " ", "M", "a", "n", "a", "g", "e", "m", "e", "n", "t">>,
      <<"m", "a", "n", "a", "g", "e", "m", "e", "n", "t", " ", "o", "f", " ", "p", "r", "o", "j", "e", "c", "t", "s">>,
      <<"s", "q", "l">>,
      <<"j", "a", "v", "a">>,
      <<"j", "a", "v", "a", "s", "c", "r", "i", "p", "t">>,
      <<" ">>,
      <<"d", "a", "t", "a", " ", "s", "c", "i", "e", "n", "c", "e">>,
      <<"s", "c", "i", "e", "n", "c", "e", " ", "d", "a", "t", "a">>,
      <<"w", "e", "b", " ", "d", "e", "v", "e", "l", "o", "p", "e", "r", " ">>,
      <<"d", "e", "e", "p", " ", "l", "e", "a", "r", "n", "i", "n", "g", " ", "a", "i">>,
      <<"a", "i", " ", "f", "o", "r", " ", "g", "o", "o", "d">> }

PartialKeywords == {Strip(Lower(text)) : text \in PartialTexts}

InitPartial ==
    /\ partial_keyword1 \in PartialKeywords
    /\ partial_keyword2 \in PartialKeywords
    /\ partial_match = NoValue
    /\ NoMatcher /\ SingleCall /\ NoSummary /\ NoAnalyzer /\ NoHelper
    /\ NoRetry /\ NoGui /\ NoWorker

IsPartialMatchCall ==
    /\ partial_match = NoValue
    /\ partial_match' = Returned(IsPartialMatch(partial_keyword1, partial_keyword2))
    /\ UNCHANGED <<partial_keyword1, partial_keyword2>>
    /\ UNCHANGED <<matcherVars, processVars, summaryVars, analyzerVars, helperVars, retryVars, guiVars, workerVars>>

NextPartial == IsPartialMatchCall

SpecPartial == InitPartial /\ [][NextPartial]_vars

(***************************************************************************)
(* retry_operation(operation, max_attempts, delay).  operation is any      *)
(* callable: each call either returns a value or raises an Exception, and  *)
(* call_log records which.  One step is one iteration of the for loop.     *)
(***************************************************************************)
MaxAttempts == 3

Delays == {1, 3}

OperationResults == {"result_a", "result_b"}

OperationErrors == {"error_a", "error_b"}

Succeeded(value) == [outcome |-> "returned", value |-> value]

Failed(exception) == [outcome |-> "raised", value |-> exception]

OperationOutcomes ==
    {Succeeded(value) : value \in OperationResults}
      \cup {Failed(exception) : exception \in OperationErrors}

\* retry_operation left by an exception
Raised(exception) == [status |-> "raised", value |-> exception]

\* a variant that sleeps after every failed attempt, the last one included
AnotherAttemptFollows_Always(k, attempts) == k < attempts

\* if attempt < max_attempts - 1
AnotherAttemptFollows(k, attempts) == k < attempts - 1

\* sleep_time = delay * (2 ** attempt)
SleepTime(seconds, k) == seconds * 2^k

InitRetry ==
    /\ max_attempts \in 0..MaxAttempts
    /\ delay \in Delays
    /\ attempt = 0
    /\ call_log = <<>>
    /\ sleeps = <<>>
    /\ last_exception = "None"
    /\ retry_outcome = NoValue
    /\ NoMatcher /\ SingleCall /\ NoSummary /\ NoAnalyzer /\ NoHelper
    /\ NoPartial /\ NoGui /\ NoWorker

\* one iteration of 'for attempt in range(max_attempts)'
RetryAttempt ==
    /\ retry_outcome = NoValue
    /\ attempt < max_attempts
    /\ \E outcome \in OperationOutcomes :
         /\ call_log' = Append(call_log, outcome)
         /\ IF outcome.outcome = "returned"
            THEN /\ retry_outcome' = Returned(outcome.value)
                 /\ UNCHANGED <<attempt, sleeps, last_exception>>
            ELSE /\ last_exception' = outcome.value
                 /\ sleeps' = IF AnotherAttemptFollows(attempt, max_attempts)
                              THEN Append(sleeps, SleepTime(delay, attempt))
                              ELSE sleeps
                 /\ attempt' = attempt + 1
                 /\ UNCHANGED retry_outcome
    /\ UNCHANGED <<max_attempts, delay>>
    /\ UNCHANGED <<matcherVars, processVars, summaryVars, analyzerVars, helperVars, partialVars, guiVars, workerVars>>

\* 'raise last_exception' after the loop; raising None is a TypeError
RetryExhausted ==
    /\ retry_outcome = NoValue
    /\ attempt >= max_attempts
    /\ retry_outcome' = IF last_exception = "None"
                        THEN Raised("TypeError")
                        ELSE Raised(last_exception)
    /\ UNCHANGED <<max_attempts, delay, attempt, call_log, sleeps, last_exception>>
    /\ UNCHANGED <<matcherVars, processVars, summaryVars, analyzerVars, helperVars, partialVars, guiVars, workerVars>>

NextRetry ==
    \/ RetryAttempt
    \/ RetryExhausted

SpecRetry == InitRetry /\ [][NextRetry]_vars

(***************************************************************************)
(* AnalysisWorker.run, the body of the worker thread.  A step is the code  *)
(* between two progress emissions; the calls it makes either return or     *)
(* raise an Exception, which the except clause turns into error_occurred.  *)
(* emitted_signals is the order in which the signals leave the thread.     *)
(***************************************************************************)
ResumePaths == {"resume.pdf", "scan.pdf", "notes.txt"}

JobDescriptions == {"python developer", "data analyst"}

ProgressUpdated(value) == [signal |-> "progress_updated", value |-> value]

AnalysisComplete(bundle) == [signal |-> "analysis_complete", results |-> bundle]

ErrorOccurred(message) == [signal |-> "error_occurred", message |-> message]

\* str(e) of the exceptions a stage of the analysis can raise
StageErrors(stage) ==
    CASE stage = "initialize" -> {"model not found", "import failed"}
      [] stage = "process_pdf" -> {"file not found", "no text in PDF"}
      [] stage = "extract_resume" -> {"empty text", "extraction failed"}
      [] stage = "analyze_job" -> {"empty text", "extraction failed"}
      [] stage = "match" -> {"'normalized'", "'importance'"}
      [] stage = "compile" -> {"'metadata'", "'text'"}

\* a variant of the except clause after which run goes on reporting progress
HandleException_ThenProgress(signals, message) ==
    signals \o <<ErrorOccurred(message), ProgressUpdated(100)>>

\* except Exception as e: self.error_occurred.emit(str(e))
HandleException(signals, message) == Append(signals, ErrorOccurred(message))

InitWorker ==
    /\ worker_inputs \in [resume_path : ResumePaths, job_description : JobDescriptions]
    /\ run_stage = "start"
    /\ emitted_signals = <<>>
    /\ NoMatcher /\ SingleCall /\ NoSummary /\ NoAnalyzer /\ NoHelper
    /\ NoPartial /\ NoRetry /\ NoGui

\* the stage's calls return and the next progress value is emitted, or one
\* of them raises and the except clause ends run
RunStage(stage, next_stage, value) ==
    /\ run_stage = stage
    /\ \/ /\ emitted_signals' = Append(emitted_signals, ProgressUpdated(value))
          /\ run_stage' = next_stage
       \/ \E message \in StageErrors(stage) :
            /\ emitted_signals' = HandleException(emitted_signals, message)
            /\ run_stage' = "returned"
    /\ UNCHANGED worker_inputs
    /\ UNCHANGED <<matcherVars, processVars, summaryVars, analyzerVars, helperVars, partialVars, retryVars, guiVars>>

RunBegin ==
    /\ run_stage = "start"
    /\ emitted_signals' = Append(emitted_signals, ProgressUpdated(10))
    /\ run_stage' = "initialize"
    /\ UNCHANGED worker_inputs
    /\ UNCHANGED <<matcherVars, processVars, summaryVars, analyzerVars, helperVars, partialVars, retryVars, guiVars>>

InitializeProcessors == RunStage("initialize", "process_pdf", 20)

ProcessPdf == RunStage("process_pdf", "extract_resume", 40)

ExtractResumeKeywords == RunStage("extract_resume", "analyze_job", 60)

AnalyzeJobDescription == RunStage("analyze_job", "match", 80)

MatchResumeToJob == RunStage("match", "compile", 90)

\* the results dict is built, then progress 100 and analysis_complete
CompileResults ==
    /\ run_stage = "compile"
    /\ \/ /\ emitted_signals' = emitted_signals
                \o <<ProgressUpdated(100), AnalysisComplete(worker_inputs)>>
          /\ run_stage' = "returned"
       \/ \E message \in StageErrors("compile") :
            /\ emitted_signals' = HandleException(emitted_signals, message)
            /\ run_stage' = "returned"
    /\ UNCHANGED worker_inputs
    /\ UNCHANGED <<matcherVars, processVars, summaryVars, analyzerVars, helperVars, partialVars, retryVars, guiVars>>

NextWorker ==
    \/ RunBegin
    \/ InitializeProcessors
    \/ ProcessPdf
    \/ ExtractResumeKeywords
    \/ AnalyzeJobDescription
    \/ MatchResumeToJob
    \/ CompileResults

\* a started thread is scheduled until run returns
SpecWorker == InitWorker /\ [][NextWorker]_vars /\ WF_vars(NextWorker)

(***************************************************************************)
(* MainWindow and its AnalysisWorker threads.  The handlers run on the     *)
(* main thread, one at a time, in any order the user and the event queue   *)
(* produce; a worker's run returns at any moment, which queues its         *)
(* finished signal.  workers[w] is the w-th AnalysisWorker created:        *)
(* running, finished (run returned, finished not yet handled), handled or  *)
(* terminated, and whether deleteLater was called on it (pending) and      *)
(* carried out (done).  analysis_worker = 0 stands for None.               *)
(***************************************************************************)
MaxWorkers == 2

TypedTexts == { <<>>, <<" ">>, <<"q", "a">>, <<"q", "a", " ">> }

\* FileUploadWidget.has_file
HasFile(path) == path # "None"

\* bool(self.job_description_edit.toPlainText().strip())
HasJobDescription(text) == Strip(text) # <<>>

\* _update_analyze_button: the state it gives the analyze button
UpdateAnalyzeButton(path, text) == HasFile(path) /\ HasJobDescription(text)

NewWorker == [state |-> "running", delete |-> "no"]

\* QThread.isRunning
IsRunning(w) == workers[w].state = "running"

InitGui ==
    /\ file_path = "None"
    /\ job_description = <<>>
    /\ analyze_button = TRUE
    /\ analysis_worker = 0
    /\ workers = <<>>
    /\ application = "running"
    /\ NoMatcher /\ SingleCall /\ NoSummary /\ NoAnalyzer /\ NoHelper
    /\ NoPartial /\ NoRetry /\ NoWorker

\* set_file emits file_selected; _on_file_selected updates the button
OnFileSelected ==
    /\ application = "running"
    /\ \E path \in ResumePaths :
         /\ file_path' = path
         /\ analyze_button' = UpdateAnalyzeButton(path, job_description)
    /\ UNCHANGED <<job_description, analysis_worker, workers, application>>
    /\ UNCHANGED <<matcherVars, processVars, summaryVars, analyzerVars, helperVars, partialVars, retryVars, workerVars>>

\* textChanged of the job description editor
OnJobDescriptionChanged ==
    /\ application = "running"
    /\ \E text \in TypedTexts \ {job_description} :
         /\ job_description' = text
         /\ analyze_button' = UpdateAnalyzeButton(file_path, text)
    /\ UNCHANGED <<file_path, analysis_worker, workers, application>>
    /\ UNCHANGED <<matcherVars, processVars, summaryVars, analyzerVars, helperVars, partialVars, retryVars, workerVars>>

\* _run_analysis: disable the button, create, connect and start a worker
RunAnalysis ==
    /\ Len(workers) < MaxWorkers
    /\ analyze_button' = FALSE
    /\ workers' = Append(workers, NewWorker)
    /\ analysis_worker' = Len(workers) + 1
    /\ UNCHANGED <<file_path, job_description, application>>

\* _start_analysis: a warning box and return when an input is missing
StartAnalysis ==
    IF HasFile(file_path) /\ HasJobDescription(job_description)
    THEN RunAnalysis
    ELSE UNCHANGED guiVars

\* analyze_button.clicked; a disabled button does not emit it
AnalyzeButtonClicked ==
    /\ application = "running"
    /\ analyze_button
    /\ StartAnalysis
    /\ UNCHANGED <<matcherVars, processVars, summaryVars, analyzerVars, helperVars, partialVars, retryVars, workerVars>>

\* triggered of the Analyze action of the menu (Ctrl+A) or of the toolbar
AnalyzeActionTriggered ==
    /\ application = "running"
    /\ StartAnalysis
    /\ UNCHANGED <<matcherVars, processVars, summaryVars, analyzerVars, helperVars, partialVars, retryVars, workerVars>>

\* run returns on the worker thread, which queues the finished signal
WorkerRunReturns ==
    /\ application = "running"
    /\ \E w \in 1..Len(workers) :
         /\ IsRunning(w)
         /\ workers' = [workers EXCEPT ![w].state = "finished"]
    /\ UNCHANGED <<file_path, job_description, analyze_button, analysis_worker, application>>
    /\ UNCHANGED <<matcherVars, processVars, summaryVars, analyzerVars, helperVars, partialVars, retryVars, workerVars>>

\* _on_analysis_finished, called for the finished signal of worker w; a
\* deleted worker delivers no signal
OnAnalysisFinished ==
    /\ application = "running"
    /\ \E w \in 1..Len(workers) :
         /\ workers[w].state = "finished"
         /\ workers[w].delete # "done"
         /\ workers' = [i \in 1..Len(workers) |->
                           [state |-> IF i = w THEN "handled" ELSE workers[i].state,
                            delete |-> IF i = analysis_worker
                                       THEN "pending"
                                       ELSE workers[i].delete]]
    /\ analyze_button' = UpdateAnalyzeButton(file_path, job_description)
    /\ analysis_worker' = 0
    /\ UNCHANGED <<file_path, job_description, application>>
    /\ UNCHANGED <<matcherVars, processVars, summaryVars, analyzerVars, helperVars, partialVars, retryVars, workerVars>>

\* the event loop carries out deleteLater; destroying a QThread that is
\* still running is fatal
DeferredDelete ==
    /\ application = "running"
    /\ \E w \in 1..Len(workers) :
         /\ workers[w].delete = "pending"
         /\ workers' = [workers EXCEPT ![w].delete = "done"]
         /\ application' = IF IsRunning(w) THEN "aborted" ELSE application
    /\ UNCHANGED <<file_path, job_description, analyze_button, analysis_worker>>
    /\ UNCHANGED <<matcherVars, processVars, summaryVars, analyzerVars, helperVars, partialVars, retryVars, workerVars>>

\* closeEvent: terminate and wait for the referenced worker if it runs
CloseEvent ==
    /\ application = "running"
    /\ application' = "closed"
    /\ workers' = IF analysis_worker # 0 /\ IsRunning(analysis_worker)
                  THEN [workers EXCEPT ![analysis_worker].state = "terminated"]
                  ELSE workers
    /\ UNCHANGED <<file_path, job_description, analyze_button, analysis_worker>>
    /\ UNCHANGED <<matcherVars, processVars, summaryVars, analyzerVars, helperVars, partialVars, retryVars, workerVars>>

NextGui ==
    \/ OnFileSelected
    \/ OnJobDescriptionChanged
    \/ AnalyzeButtonClicked
    \/ AnalyzeActionTriggered
    \/ WorkerRunReturns
    \/ OnAnalysisFinished
    \/ DeferredDelete
    \/ CloseEvent

SpecGui == InitGui /\ [][NextGui]_vars

(***************************************************************************)
(* Properties of match_keywords.                                           *)
(***************************************************************************)
Done == results # NoResults

\* R and J: the normalized lists the matchers work on
R == NormalizeKeywords(resume_keywords)
J == NormalizeKeywords(job_keywords)

NormalizedTexts(keywords) == [i \in 1..Len(keywords) |-> keywords[i].normalized]

\* the positions of a match list that hold a match of job (resume) keyword k
JobEntries(matches, k) == {i \in 1..Len(matches) : matches[i].job_index = k}
ResumeEntries(matches, k) == {i \in 1..Len(matches) : matches[i].resume_index = k}

\* the outcomes (tiers) that report job keyword j
JobOutcomes(j) ==
    {tier \in {"exact_matches", "fuzzy_matches", "partial_matches", "missing_keywords"} :
        JobEntries(results[tier], j) # {}}

TotalMatches ==
    Len(results.exact_matches) + Len(results.fuzzy_matches)
      + Len(results.partial_matches)

\* C1: after match_keywords no job keyword (by position in the job list) is
\* reported in more than one of exact_matches, fuzzy_matches,
\* partial_matches and missing_keywords.
C1_JobKeywordInOneOutcome ==
    Done => \A j \in 1..Len(J) : Cardinality(JobOutcomes(j)) <= 1

\* C2: the overall_score returned by match_keywords (and by
\* ResumeScorer.score on its result) is at least 0 and at most 100.
C2_OverallScoreBounds ==
    Done => /\ FracLeq(FracZero, results.scores.overall_score)
            /\ FracLeq(results.scores.overall_score, FracOfInt(100))
            /\ FracLeq(FracZero, Score(results))
            /\ FracLeq(Score(results), FracOfInt(100))

\* C3: the number of exact, fuzzy and partial matches together never exceeds
\* the number of normalized job keywords, so match_percentage and
\* coverage_percentage never exceed 100.
C3_MatchCountBounded ==
    Done => /\ TotalMatches <= Len(J)
            /\ FracLeq(results.scores.match_percentage, FracOfInt(100))
            /\ FracLeq(results.scores.coverage_percentage, FracOfInt(100))

\* C4: a normalized string that occurs in both the resume list and the job
\* list is the resume-side or job-side string of no fuzzy match and of no
\* partial match.
C4_ExactPrecedence ==
    Done =>
      \A s \in CommonKeywords(R, J) :
        /\ \A i \in 1..Len(results.fuzzy_matches) :
              /\ results.fuzzy_matches[i].normalized_resume # s
              /\ results.fuzzy_matches[i].normalized_job # s
        /\ \A i \in 1..Len(results.partial_matches) :
              /\ results.partial_matches[i].normalized_resume # s
              /\ results.partial_matches[i].normalized_job # s

\* C4 witness: a string is matched exactly while the lists also hold a
\* near-duplicate of it that is matched in the fuzzy or the partial tier.
C4_Witness ==
    /\ Done
    /\ \E s \in CommonKeywords(R, J) :
         \/ \E i \in 1..Len(results.fuzzy_matches) :
              \/ IsPartialMatch(s, results.fuzzy_matches[i].normalized_resume)
              \/ IsPartialMatch(s, results.fuzzy_matches[i].normalized_job)
         \/ \E i \in 1..Len(results.partial_matches) :
              \/ IsPartialMatch(s, results.partial_matches[i].normalized_resume)
              \/ IsPartialMatch(s, results.partial_matches[i].normalized_job)

\* C5: every resume keyword (by position in the resume list) is the resume
\* side of at most one match across exact_matches, fuzzy_matches and
\* partial_matches together.
C5_ResumeKeywordInOneMatch ==
    Done =>
      \A i \in 1..Len(R) :
        Cardinality(ResumeEntries(results.exact_matches, i))
          + Cardinality(ResumeEntries(results.fuzzy_matches, i))
          + Cardinality(ResumeEntries(results.partial_matches, i)) <= 1

\* C5 witness: a resume keyword is fuzzy matched, and a partial match was made
\* with a job keyword that this resume keyword partially matches as well.
C5_Witness ==
    /\ Done
    /\ \E i \in 1..Len(results.fuzzy_matches), k \in 1..Len(results.partial_matches) :
          IsPartialMatch(results.fuzzy_matches[i].normalized_resume,
                         results.partial_matches[k].normalized_job)

\* C6: when the resume list and the job list have identical normalized text
\* lists, every job keyword has exactly one exact match (the match of its
\* normalized string) and that match has confidence 1.0, there are no fuzzy
\* or partial matches, and missing_keywords is empty.
IdenticalLists == NormalizedTexts(R) = NormalizedTexts(J)

C6_IdenticalListsAllExact ==
    (Done /\ IdenticalLists) =>
      /\ \A j \in 1..Len(J) :
            /\ Cardinality({i \in 1..Len(results.exact_matches) :
                   results.exact_matches[i].normalized = J[j].normalized}) = 1
            /\ \A i \in 1..Len(results.exact_matches) :
                   results.exact_matches[i].normalized = J[j].normalized
                     => results.exact_matches[i].confidence = 100
      /\ results.fuzzy_matches = <<>>
      /\ results.partial_matches = <<>>
      /\ results.missing_keywords = <<>>

\* C6 witness: identical lists of two keywords with different strings.
C6_Witness ==
    /\ Done
    /\ IdenticalLists
    /\ Len(J) = 2
    /\ J[1].normalized # J[2].normalized

\* C7: when no resume keyword equals, fuzzily matches (ratio >= threshold) or
\* partially matches any job keyword, the three match lists are empty and
\* missing_keywords holds every job keyword, one entry per position of the
\* job list, in job-list order.
DisjointVocabulary ==
    \A i \in 1..Len(R), j \in 1..Len(J) :
        /\ R[i].normalized # J[j].normalized
        /\ Ratio(R[i].normalized, J[j].normalized) < fuzzy_threshold
        /\ ~IsPartialMatch(R[i].normalized, J[j].normalized)

C7_DisjointAllMissing ==
    (Done /\ DisjointVocabulary) =>
      /\ results.exact_matches = <<>>
      /\ results.fuzzy_matches = <<>>
      /\ results.partial_matches = <<>>
      /\ Len(results.missing_keywords) = Len(J)
      /\ \A j \in 1..Len(J) :
            /\ results.missing_keywords[j].job_index = j
            /\ results.missing_keywords[j].keyword = J[j].original
            /\ results.missing_keywords[j].normalized = J[j].normalized

\* C7 witness: a resume keyword and two job keywords with nothing in common,
\* of which one pair has a positive similarity ratio below the threshold.
C7_Witness ==
    /\ Done
    /\ DisjointVocabulary
    /\ Len(R) >= 1
    /\ Len(J) = 2
    /\ \E i \in 1..Len(R), j \in 1..Len(J) :
          Ratio(R[i].normalized, J[j].normalized) > 0

\* C8: for every fuzzy threshold t, a candidate pair whose similarity ratio is
\* exactly t, and which is the only available candidate, is emitted as a
\* fuzzy match, and a pair whose ratio is t-1 is not.
ResumeCandidates == FilterOut(R, CommonKeywords(R, J))
JobCandidates == FilterOut(J, CommonKeywords(R, J))

C8_ThresholdBoundary ==
    (Done /\ Len(ResumeCandidates) = 1 /\ Len(JobCandidates) = 1) =>
      LET r == ResumeCandidates[1]
          j == JobCandidates[1]
          ratio == Ratio(r.normalized, j.normalized)
          emitted == \E i \in 1..Len(results.fuzzy_matches) :
                        /\ results.fuzzy_matches[i].resume_index = r.index
                        /\ results.fuzzy_matches[i].job_index = j.index
      IN /\ ratio = fuzzy_threshold => emitted
         /\ ratio = fuzzy_threshold - 1 => ~emitted

\* C9: missing_keywords holds exactly the job keywords (every position of the
\* normalized job list, in job-list order) whose normalized string is not the
\* job-side string of an emitted exact, fuzzy or partial match; each entry
\* carries that job keyword's own importance and type.
MatchedJobSide ==
    {results.exact_matches[i].normalized : i \in 1..Len(results.exact_matches)}
      \cup {results.fuzzy_matches[i].normalized_job :
               i \in 1..Len(results.fuzzy_matches)}
      \cup {results.partial_matches[i].normalized_job :
               i \in 1..Len(results.partial_matches)}

UnmatchedJobPositions == {j \in 1..Len(J) : J[j].normalized \notin MatchedJobSide}

C9_MissingExactlyUnmatched ==
    Done =>
      LET missing == results.missing_keywords
      IN /\ Len(missing) = Cardinality(UnmatchedJobPositions)
         /\ \A k \in 1..Len(missing) :
               /\ missing[k].job_index \in UnmatchedJobPositions
               /\ k > 1 => missing[k - 1].job_index < missing[k].job_index
               /\ missing[k].keyword = J[missing[k].job_index].original
               /\ missing[k].importance = J[missing[k].job_index].importance
               /\ missing[k].type = J[missing[k].job_index].type

\* C9 witness: two job keywords with one normalized string and different
\* importances are both missing while another resume keyword is present.
C9_Witness ==
    /\ Done
    /\ Len(R) >= 1
    /\ Len(results.missing_keywords) = 2
    /\ results.missing_keywords[1].normalized = results.missing_keywords[2].normalized
    /\ results.missing_keywords[1].importance # results.missing_keywords[2].importance

\* C10: with totalMatches = |exact|+|fuzzy|+|partial|, match_percentage =
\* coverage_percentage = 100*totalMatches/|J| (0 if |J|=0), resume_utilization
\* = 100*totalMatches/|R| (0 if |R|=0) and overall_score =
\* 100*(exact_score+fuzzy_score+partial_score)/(|J|*1.0) (0 if |J|=0), each
\* tier score being the sum of weight*confidence over the tier's matches with
\* weights 1.0, 0.8 and 0.6.
RECURSIVE TierScore(_, _)
TierScore(matches, weight) ==
    IF matches = <<>> THEN 0
    ELSE weight * Head(matches).confidence + TierScore(Tail(matches), weight)

C10_PercentageFormulas ==
    Done =>
      LET sc == results.scores
          tiers == TierScore(results.exact_matches, 10)
                     + TierScore(results.fuzzy_matches, 8)
                     + TierScore(results.partial_matches, 6)
      IN /\ sc.total_matches = TotalMatches
         /\ sc.exact_score = TierScore(results.exact_matches, 10)
         /\ sc.fuzzy_score = TierScore(results.fuzzy_matches, 8)
         /\ sc.partial_score = TierScore(results.partial_matches, 6)
         /\ sc.match_percentage = sc.coverage_percentage
         /\ IF Len(J) = 0
            THEN /\ FracEq(sc.match_percentage, FracZero)
                 /\ FracEq(sc.overall_score, FracZero)
            ELSE /\ FracEq(sc.match_percentage, Frac(100 * TotalMatches, Len(J)))
                 \* weights in tenths, confidences in hundredths
                 /\ FracEq(sc.overall_score, Frac(100 * tiers, Len(J) * 10 * 100))
         /\ IF Len(R) = 0
            THEN FracEq(sc.resume_utilization, FracZero)
            ELSE FracEq(sc.resume_utilization, Frac(100 * TotalMatches, Len(R)))

\* C10 witness: exact, fuzzy and partial matches occur together and the two
\* lists differ in length.
C10_Witness ==
    /\ Done
    /\ Len(results.fuzzy_matches) >= 1
    /\ Len(results.partial_matches) >= 1
    /\ Len(R) # Len(J)
    /\ Len(J) > 0

\* C11: if every job record's text is empty after trimming (the job list is
\* empty or normalizes to empty), match_keywords returns the four lists empty
\* and match_percentage, coverage_percentage, resume_utilization and
\* overall_score all 0; if only the resume list is empty it returns no
\* matches, every job keyword missing and all four scores 0.
EmptyAfterTrimming(keywords) ==
    \A i \in 1..Len(keywords) : Strip(Get(keywords[i], "text", <<>>)) = <<>>

AllScoresZero ==
    /\ FracEq(results.scores.match_percentage, FracZero)
    /\ FracEq(results.scores.coverage_percentage, FracZero)
    /\ FracEq(results.scores.resume_utilization, FracZero)
    /\ FracEq(results.scores.overall_score, FracZero)

C11_EmptyInputsZeroResults ==
    Done =>
      /\ EmptyAfterTrimming(job_keywords) =>
            /\ results.exact_matches = <<>>
            /\ results.fuzzy_matches = <<>>
            /\ results.partial_matches = <<>>
            /\ results.missing_keywords = <<>>
            /\ AllScoresZero
      /\ (resume_keywords = <<>> /\ ~EmptyAfterTrimming(job_keywords)) =>
            /\ TotalMatches = 0
            /\ Len(results.missing_keywords) = Len(J)
            /\ \A j \in 1..Len(J) : JobEntries(results.missing_keywords, j) # {}
            /\ AllScoresZero

\* C19: the normalizer returns exactly one NormalizedKeyword for each input
\* record whose text is non-empty after trimming, in input order, and drops
\* every record whose text is empty after trimming (whitespace-only text
\* included); importance, type and frequency are preserved and default to
\* 0.5, "unknown" and 1 when absent.
NonEmptyAfterTrimming(keywords) ==
    SelectSeq(keywords, LAMBDA kw : Strip(Get(kw, "text", <<>>)) # <<>>)

NormalizerContract(keywords) ==
    LET kept == NonEmptyAfterTrimming(keywords)
        normalized == NormalizeKeywords(keywords)
    IN /\ Len(normalized) = Len(kept)
       /\ \A i \in 1..Len(normalized) :
             i <= Len(kept) =>
               /\ normalized[i].original = kept[i].text
               /\ normalized[i].importance = Get(kept[i], "importance", 5)
               /\ normalized[i].type = Get(kept[i], "type", "unknown")
               /\ normalized[i].frequency = Get(kept[i], "frequency", 1)

C19_NormalizerDropsEmptyAfterTrimming ==
    Done =>
      /\ NormalizerContract(resume_keywords)
      /\ NormalizerContract(job_keywords)
      /\ results.total_resume_keywords = Len(NonEmptyAfterTrimming(resume_keywords))
      /\ results.total_job_keywords = Len(NonEmptyAfterTrimming(job_keywords))

\* C20: exact_matches holds exactly one match per distinct normalized string
\* present in both lists, however many entries share it, and no other match;
\* each match pairs the first resume entry and the first job entry (by list
\* order) that carry the string and has confidence 1.0 and weight 1.0.
Carriers(keywords, keyword) ==
    {k \in 1..Len(keywords) : keywords[k].normalized = keyword}

FirstCarrier(keywords, keyword) ==
    CHOOSE k \in Carriers(keywords, keyword) :
        \A other \in Carriers(keywords, keyword) : k <= other

C20_OneExactMatchPerCommonString ==
    Done =>
      LET exact == results.exact_matches
      IN /\ Len(exact) = Cardinality(CommonKeywords(R, J))
         /\ \A keyword \in CommonKeywords(R, J) :
               \E i \in 1..Len(exact) : exact[i].normalized = keyword
         /\ \A i \in 1..Len(exact) :
               /\ exact[i].normalized \in CommonKeywords(R, J)
               /\ exact[i].resume_index = FirstCarrier(R, exact[i].normalized)
               /\ exact[i].job_index = FirstCarrier(J, exact[i].normalized)
               /\ exact[i].resume_keyword = R[exact[i].resume_index].original
               /\ exact[i].job_keyword = J[exact[i].job_index].original
               /\ exact[i].resume_importance = R[exact[i].resume_index].importance
               /\ exact[i].job_importance = J[exact[i].job_index].importance
               /\ exact[i].match_type = "exact"
               /\ exact[i].confidence = 100
               /\ exact[i].weight = 10

\* C20 witness: a string shared by the resume and by two job entries of
\* different importance and spelling is matched once.
C20_Witness ==
    /\ Done
    /\ Len(results.exact_matches) = 1
    /\ Len(J) = 2
    /\ Carriers(J, results.exact_matches[1].normalized) = {1, 2}
    /\ J[1].importance # J[2].importance
    /\ J[1].original # J[2].original

\* C12: the assessment label is a function of overall_score with inclusive
\* lower bounds: >= 90 Excellent, >= 80 Very Good, >= 70 Good, >= 60 Fair,
\* >= 50 Poor, otherwise Very Poor; every score has exactly one label and the
\* label never gets worse when the score grows.
Assessed == overall_assessment # NoValue

\* x <= score < y
InBand(score, x, y) == FracLeq(FracOfInt(x), score) /\ ~FracLeq(FracOfInt(y), score)

LabelRank(label) ==
    CASE label = "Very Poor Match" -> 0
      [] label = "Poor Match"      -> 1
      [] label = "Fair Match"      -> 2
      [] label = "Good Match"      -> 3
      [] label = "Very Good Match" -> 4
      [] label = "Excellent Match" -> 5

C12_AssessmentBands ==
    Assessed =>
      LET label == overall_assessment.value IN
      /\ label \in {"Very Poor Match", "Poor Match", "Fair Match",
                    "Good Match", "Very Good Match", "Excellent Match"}
      /\ label = "Excellent Match" <=> FracLeq(FracOfInt(90), summary_score)
      /\ label = "Very Good Match" <=> InBand(summary_score, 80, 90)
      /\ label = "Good Match" <=> InBand(summary_score, 70, 80)
      /\ label = "Fair Match" <=> InBand(summary_score, 60, 70)
      /\ label = "Poor Match" <=> InBand(summary_score, 50, 60)
      /\ label = "Very Poor Match" <=> ~FracLeq(FracOfInt(50), summary_score)
      /\ \A lower \in AssessScores :
            FracLeq(lower, summary_score) =>
               LabelRank(AssessOverallMatch(lower)) <= LabelRank(label)

\* C12 witness: a score that sits exactly on a cut-off has been assessed and
\* got the label of the band that starts there.
C12_Witness ==
    /\ Assessed
    /\ FracEq(summary_score, FracOfInt(80))
    /\ overall_assessment = Returned("Very Good Match")

\* C16: the recommendation list starts with exactly one score-tier message
\* (low if overall_score < 50, moderate if 50 <= overall_score < 70, good if
\* >= 70), followed by the high-importance message, carrying the count, iff at
\* least one missing keyword has importance >= 0.8, followed by the generic
\* message iff more than 10 keywords are missing; so it has 1 to 3 entries.
Recommended == recommendations # NoValue

TierMessage(tier) ==
    CASE tier = "low" ->
           "Overall match is low. Consider adding more relevant keywords to your resume."
      [] tier = "moderate" ->
           "Match is moderate. Focus on adding high-importance missing keywords."
      [] tier = "good" ->
           "Good match! Your resume aligns well with the job requirements."

HighImportanceMessage(count) ==
    <<"Add ", count, " high-importance keywords to improve your match.">>

GenericMessage == "Consider adding more relevant skills and technologies to your resume."

HighImportanceCount(missing) ==
    Cardinality({i \in 1..Len(missing) : missing[i].importance >= 8})

C16_RecommendationList ==
    Recommended =>
      LET list == recommendations.value
          high == HighImportanceCount(summary_missing)
          tier == IF ~FracLeq(FracOfInt(50), summary_score) THEN "low"
                  ELSE IF ~FracLeq(FracOfInt(70), summary_score) THEN "moderate"
                  ELSE "good"
      IN /\ Len(list) \in 1..3
         /\ list[1] = TierMessage(tier)
         /\ Tail(list) =
               (IF high >= 1 THEN <<HighImportanceMessage(high)>> ELSE <<>>)
                 \o (IF Len(summary_missing) > 10 THEN <<GenericMessage>> ELSE <<>>)

\* C16 witness: eleven keywords are missing, some of importance 0.8 and some
\* below, at a moderate score, and the list has its three entries.
C16_Witness ==
    /\ Recommended
    /\ Len(summary_missing) = 11
    /\ HighImportanceCount(summary_missing) \in 1..10
    /\ FracEq(summary_score, FracOfInt(50))
    /\ Len(recommendations.value) = 3

\* C13: for resume keywords python (0.9), django (0.7), sql (0.6) and job
\* keywords python (0.9), flask (0.8), sql (0.6) with threshold 70,
\* match_keywords yields exactly the two exact matches python and sql, no
\* fuzzy and no partial match, missing = [flask] with importance 0.8,
\* overall_score = 100*2/3 (66.7 rounded) and the assessment "Fair Match".
ScenarioRun ==
    /\ Done
    /\ fuzzy_threshold = 70
    /\ resume_keywords = ScenarioResume
    /\ job_keywords = ScenarioJob

C13_EndToEndScenario ==
    ScenarioRun =>
      /\ Len(results.exact_matches) = 2
      /\ {results.exact_matches[i].normalized : i \in 1..2} = {Python.text, Sql.text}
      /\ \A i \in 1..2 :
            /\ results.exact_matches[i].resume_keyword = results.exact_matches[i].normalized
            /\ results.exact_matches[i].job_keyword = results.exact_matches[i].normalized
      /\ results.fuzzy_matches = <<>>
      /\ results.partial_matches = <<>>
      /\ Len(results.missing_keywords) = 1
      /\ results.missing_keywords[1].keyword = Flask.text
      /\ results.missing_keywords[1].importance = 8
      /\ FracEq(results.scores.overall_score, Frac(100 * 2, 3))
      \* 66.7 when rounded to one decimal: 66.65 <= score < 66.75
      /\ FracLeq(Frac(6665, 100), results.scores.overall_score)
      /\ ~FracLeq(Frac(6675, 100), results.scores.overall_score)
      /\ results.summary.overall_assessment = "Fair Match"

\* C13 witness: the scenario has been run.
C13_Witness ==
    /\ ScenarioRun
    /\ results.total_resume_keywords = 3
    /\ results.total_job_keywords = 3

\* C14: running match_keywords twice on the same resume list, job list and
\* threshold yields identical results, the order of the entries of
\* exact_matches, fuzzy_matches, partial_matches and missing_keywords
\* included: the output depends on nothing but the inputs.
C14_SameInputsSameResults ==
    (Done /\ previous_results # NoResults) => results = previous_results

Extracted == extracted_keywords # NoValue

C17_ImportanceInUnitInterval ==
    Extracted =>
      \A i \in 1..Len(extracted_keywords.value) :
          /\ extracted_keywords.value[i].importance >= 0
          /\ extracted_keywords.value[i].importance <= 10

\* C18: clean_text and normalize_keyword return a string with no leading or
\* trailing whitespace in which every run of whitespace is a single space (no
\* two adjacent whitespace characters); normalize_keyword's is all lowercase.
SingleSpaced(text) ==
    /\ text # <<>> => ~IsSpace(text[1]) /\ ~IsSpace(text[Len(text)])
    /\ \A i \in 1..Len(text) : IsSpace(text[i]) => text[i] = " "
    /\ \A i \in 1..(Len(text) - 1) : ~(IsSpace(text[i]) /\ IsSpace(text[i + 1]))

C18_HelpersCollapseWhitespace ==
    /\ cleaned_text # NoValue => SingleSpaced(cleaned_text.value)
    /\ normalized_keyword # NoValue =>
          /\ SingleSpaced(normalized_keyword.value)
          /\ normalized_keyword.value = Lower(normalized_keyword.value)

\* C21: fuzzy pairing is greedy in resume-list order: each resume candidate
\* whose string is not yet consumed is paired with the not-yet-consumed job
\* candidate of maximum ratio among those with ratio >= fuzzy_threshold, the
\* earliest in list order winning ties, with confidence ratio/100 and weight
\* 0.8; a candidate with no job candidate at or above the threshold yields
\* no fuzzy match.
FuzzyBefore(k) ==
    {m \in 1..Len(results.fuzzy_matches) : results.fuzzy_matches[m].resume_index < k}

FuzzyConsumedResume(k) ==
    {results.fuzzy_matches[m].normalized_resume : m \in FuzzyBefore(k)}

FuzzyConsumedJob(k) ==
    {results.fuzzy_matches[m].normalized_job : m \in FuzzyBefore(k)}

\* the job candidates resume candidate r may be paired with
FuzzyEligible(r) ==
    {j \in 1..Len(JobCandidates) :
        /\ JobCandidates[j].normalized \notin FuzzyConsumedJob(r.index)
        /\ Ratio(r.normalized, JobCandidates[j].normalized) >= fuzzy_threshold}

FuzzyBest(r) ==
    CHOOSE j \in FuzzyEligible(r) :
        \A other \in FuzzyEligible(r) :
            LET mine == Ratio(r.normalized, JobCandidates[j].normalized)
                theirs == Ratio(r.normalized, JobCandidates[other].normalized)
            IN mine > theirs \/ (mine = theirs /\ j <= other)

C21_FuzzyGreedyPairing ==
    Done =>
      LET fuzzy == results.fuzzy_matches
      IN /\ \A m \in 1..Len(fuzzy) :
               /\ \E c \in 1..Len(ResumeCandidates) :
                     ResumeCandidates[c].index = fuzzy[m].resume_index
               /\ m > 1 => fuzzy[m - 1].resume_index < fuzzy[m].resume_index
         /\ \A c \in 1..Len(ResumeCandidates) :
               LET r == ResumeCandidates[c]
                   mine == ResumeEntries(fuzzy, r.index)
               IN IF r.normalized \in FuzzyConsumedResume(r.index)
                       \/ FuzzyEligible(r) = {}
                  THEN mine = {}
                  ELSE /\ Cardinality(mine) = 1
                       /\ \A m \in mine :
                             LET best == JobCandidates[FuzzyBest(r)]
                             IN /\ fuzzy[m].job_index = best.index
                                /\ fuzzy[m].ratio = Ratio(r.normalized, best.normalized)
                                /\ fuzzy[m].confidence * 100 = fuzzy[m].ratio * CONFIDENCE_SCALE
                                /\ fuzzy[m].weight = 8
                                /\ fuzzy[m].match_type = "fuzzy"

\* C22: within the fuzzy stage each normalized string is consumed at most
\* once per side: no two fuzzy matches share the resume-side normalized
\* string and no two share the job-side normalized string, duplicates in the
\* lists included.
C22_FuzzyConsumesOncePerSide ==
    Done =>
      \A m \in 1..Len(results.fuzzy_matches), n \in 1..Len(results.fuzzy_matches) :
          m # n =>
            /\ results.fuzzy_matches[m].normalized_resume
                  # results.fuzzy_matches[n].normalized_resume
            /\ results.fuzzy_matches[m].normalized_job
                  # results.fuzzy_matches[n].normalized_job

\* C22 witness: two different resume candidates both reach the threshold with
\* the same job string, and only the first is paired with it.
C22_Witness ==
    /\ Done
    /\ Len(results.fuzzy_matches) = 1
    /\ Len(ResumeCandidates) = 2
    /\ ResumeCandidates[1].normalized # ResumeCandidates[2].normalized
    /\ \A c \in 1..2 :
          Ratio(ResumeCandidates[c].normalized, results.fuzzy_matches[1].normalized_job)
            >= Max(fuzzy_threshold, 1)

\* C23: partial pairing is first-hit in list order: each remaining resume
\* candidate, in resume-list order and skipped if its string was consumed in
\* this stage, is paired with the first job candidate in job-list order that
\* is not consumed in this stage and satisfies isPartialMatch, with
\* confidence 0.6 and weight 0.6; no two partial matches share a resume-side
\* or a job-side normalized string.
FuzzyResumeSide ==
    {results.fuzzy_matches[m].normalized_resume : m \in 1..Len(results.fuzzy_matches)}

PartialResumeCandidates == FilterOut(R, CommonKeywords(R, J) \cup FuzzyResumeSide)
PartialJobCandidates == FilterOut(J, CommonKeywords(R, J))

PartialBefore(k) ==
    {m \in 1..Len(results.partial_matches) : results.partial_matches[m].resume_index < k}

PartialConsumedResume(k) ==
    {results.partial_matches[m].normalized_resume : m \in PartialBefore(k)}

PartialConsumedJob(k) ==
    {results.partial_matches[m].normalized_job : m \in PartialBefore(k)}

PartialEligible(jobs, r) ==
    {j \in 1..Len(jobs) :
        /\ jobs[j].normalized \notin PartialConsumedJob(r.index)
        /\ IsPartialMatch(r.normalized, jobs[j].normalized)}

FirstEligible(eligible) ==
    CHOOSE j \in eligible : \A other \in eligible : j <= other

C23_PartialFirstHit ==
    Done =>
      LET partial == results.partial_matches
          resumes == PartialResumeCandidates
          jobs == PartialJobCandidates
      IN /\ \A m \in 1..Len(partial) :
               /\ \E c \in 1..Len(resumes) : resumes[c].index = partial[m].resume_index
               /\ m > 1 => partial[m - 1].resume_index < partial[m].resume_index
               /\ \A n \in 1..Len(partial) :
                     m # n => /\ partial[m].normalized_resume # partial[n].normalized_resume
                              /\ partial[m].normalized_job # partial[n].normalized_job
         /\ \A c \in 1..Len(resumes) :
               LET r == resumes[c]
                   mine == ResumeEntries(partial, r.index)
                   eligible == PartialEligible(jobs, r)
               IN IF r.normalized \in PartialConsumedResume(r.index) \/ eligible = {}
                  THEN mine = {}
                  ELSE /\ Cardinality(mine) = 1
                       /\ \A m \in mine :
                             /\ partial[m].job_index = jobs[FirstEligible(eligible)].index
                             /\ partial[m].confidence = 60
                             /\ partial[m].weight = 6
                             /\ partial[m].match_type = "partial"

\* C23 witness: a resume candidate with a non-empty string partially matches
\* two job candidates and is paired with one of them.
C23_Witness ==
    /\ Done
    /\ \E c \in 1..Len(PartialResumeCandidates) :
          /\ PartialResumeCandidates[c].normalized # <<>>
          /\ ResumeEntries(results.partial_matches, PartialResumeCandidates[c].index) # {}
          /\ Cardinality(PartialEligible(PartialJobCandidates,
                                         PartialResumeCandidates[c])) >= 2

\* C24: the partial stage's resume candidates are exactly the resume keywords
\* whose normalized string is neither exact-matched nor the resume side of a
\* fuzzy match, and its job candidates are exactly the job keywords whose
\* normalized string is not exact-matched: a job keyword that is the job side
\* of a fuzzy match can still become the job side of a partial match.
PartialResumeSide ==
    {results.partial_matches[m].normalized_resume : m \in 1..Len(results.partial_matches)}

PartialJobSide ==
    {results.partial_matches[m].normalized_job : m \in 1..Len(results.partial_matches)}

FuzzyJobSide ==
    {results.fuzzy_matches[m].normalized_job : m \in 1..Len(results.fuzzy_matches)}

AllMatches == results.exact_matches \o results.fuzzy_matches \o results.partial_matches

GreaterImportance(m) ==
    IF AllMatches[m].resume_importance >= AllMatches[m].job_importance
    THEN AllMatches[m].resume_importance
    ELSE AllMatches[m].job_importance

C26_ImportanceCountsPartition ==
    Done =>
      LET summary == results.summary
          high == {m \in 1..Len(AllMatches) : GreaterImportance(m) >= 8}
          medium == {m \in 1..Len(AllMatches) :
                        GreaterImportance(m) >= 5 /\ GreaterImportance(m) < 8}
          low == {m \in 1..Len(AllMatches) : GreaterImportance(m) < 5}
      IN /\ summary.high_importance_matches = Cardinality(high)
         /\ summary.medium_importance_matches = Cardinality(medium)
         /\ summary.low_importance_matches = Cardinality(low)
         /\ summary.high_importance_matches + summary.medium_importance_matches
               + summary.low_importance_matches = results.scores.total_matches
         /\ results.scores.total_matches = Len(AllMatches)
         /\ summary.missing_keywords_count = Len(results.missing_keywords)

\* C26 witness: two matches fall into different bands, and one of them is
\* lifted out of the low band by the job side's importance alone.
C26_Witness ==
    /\ Done
    /\ Len(AllMatches) = 2
    /\ results.summary.high_importance_matches = 1
    /\ results.summary.medium_importance_matches = 1
    /\ \E m \in 1..2 : /\ AllMatches[m].resume_importance < 5
                         /\ AllMatches[m].job_importance >= 5

\* C28: the top-level match_percentage of the result bundle equals
\* scores['overall_score'], not scores['match_percentage'], and the two
\* differ whenever a fuzzy or a partial match exists.
C28_TopLevelIsOverallScore ==
    Done =>
      /\ FracEq(results.match_percentage, results.scores.overall_score)
      /\ (results.fuzzy_matches # <<>> \/ results.partial_matches # <<>>) =>
            ~FracEq(results.match_percentage, results.scores.match_percentage)

\* C28 witness: fuzzy and partial matches exist next to an exact one.
C28_Witness ==
    /\ Done
    /\ results.exact_matches # <<>>
    /\ results.partial_matches # <<>>
    /\ ~FracEq(results.scores.overall_score, results.scores.match_percentage)

\* C25: isPartialMatch(a, b) is true exactly when a is a substring of b, or
\* b of a, or the whitespace-split word sets share at least half as many
\* words as the smaller set has; it is symmetric; it holds for "developer"
\* vs "senior developer" and for "project management" vs "management of
\* projects"; it is false for two non-empty strings that share no word and
\* of which neither contains the other.
Words(s) == Split(s)

Contains(a, b) == \E i \in 1..(Len(a) - Len(b) + 1) : \A k \in 1..Len(b) : a[i + k - 1] = b[k]

SmallerWordSet(a, b) ==
    IF Cardinality(Words(a)) <= Cardinality(Words(b))
    THEN Cardinality(Words(a))
    ELSE Cardinality(Words(b))

Developer == <<"d", "e", "v", "e", "l", "o", "p", "e", "r">>
SeniorDeveloper == <<"s", "e", "n", "i", "o", "r", " ", "d", "e", "v", "e", "l", "o", "p", "e", "r">>
ProjectManagement == <<"p", "r", "o", "j", "e", "c", "t", " ", "m", "a", "n", "a", "g", "e", "m", "e", "n", "t">>
ManagementOfProjects == <<"m", "a", "n", "a", "g", "e", "m", "e", "n", "t", " ", "o", "f", " ", "p", "r", "o", "j", "e", "c", "t", "s">>

C25_IsPartialMatch ==
    partial_match # NoValue =>
      LET a == partial_keyword1
          b == partial_keyword2
          shared == Cardinality(Words(a) \cap Words(b))
      IN /\ partial_match.value <=>
               \/ Contains(b, a)
               \/ Contains(a, b)
               \/ 2 * shared >= SmallerWordSet(a, b)
         /\ partial_match.value = IsPartialMatch(b, a)
         /\ (a = Developer /\ b = SeniorDeveloper) => partial_match.value
         /\ (a = ProjectManagement /\ b = ManagementOfProjects) => partial_match.value
         /\ (a # <<>> /\ b # <<>> /\ shared = 0 /\ ~Contains(a, b) /\ ~Contains(b, a))
               => ~partial_match.value

\* C25 witness: the word-overlap example, where neither string contains the
\* other and one of the two words of the smaller set is shared.
C25_Witness ==
    /\ partial_keyword1 = ProjectManagement
    /\ partial_keyword2 = ManagementOfProjects
    /\ partial_match = Returned(TRUE)
    /\ ~Contains(partial_keyword1, partial_keyword2)
    /\ ~Contains(partial_keyword2, partial_keyword1)

\* C27: retry_operation calls operation at most max_attempts times, returns
\* the result of the first call that succeeds without calling it again,
\* sleeps delay * 2^k after the k-th failed attempt (k from 0) only when
\* another attempt follows, and when all max_attempts >= 1 attempts fail it
\* raises the exception of the last attempt.
FailedAttempts == {i \in 1..Len(call_log) : call_log[i].outcome = "raised"}

FollowedAttempts == {i \in FailedAttempts : i < max_attempts}

C27_RetryOperation ==
    /\ Len(call_log) <= max_attempts
    /\ \A i \in 1..Len(call_log) :
          call_log[i].outcome = "returned" =>
            /\ i = Len(call_log)
            /\ retry_outcome = Returned(call_log[i].value)
    /\ retry_outcome.status = "returned" =>
          /\ call_log # <<>>
          /\ call_log[Len(call_log)].outcome = "returned"
    /\ Len(sleeps) = Cardinality(FollowedAttempts)
    /\ \A i \in FollowedAttempts : sleeps[i] = delay * 2^(i - 1)
    /\ (max_attempts >= 1 /\ Cardinality(FailedAttempts) = max_attempts
          /\ retry_outcome # NoValue)
          => retry_outcome = Raised(call_log[max_attempts].value)

\* C27 witness: three attempts fail with different exceptions, two sleeps
\* were made and the exception of the third attempt is raised.
C27_Witness ==
    /\ max_attempts = MaxAttempts
    /\ Cardinality(FailedAttempts) = max_attempts
    /\ call_log[1].value # call_log[max_attempts].value
    /\ Len(sleeps) = max_attempts - 1
    /\ retry_outcome = Raised(call_log[max_attempts].value)

\* C30: each AnalysisWorker.run emits exactly one terminal signal, either
\* analysis_complete or error_occurred and never both; the progress values
\* it emits are strictly increasing, a prefix of 10, 20, 40, 60, 80, 90,
\* 100; analysis_complete is emitted only after progress 100; after an error
\* no further progress value is emitted.
ProgressValues == <<10, 20, 40, 60, 80, 90, 100>>

IsProgress(s) == s.signal = "progress_updated"

TerminalPositions ==
    {i \in 1..Len(emitted_signals) :
        emitted_signals[i].signal \in {"analysis_complete", "error_occurred"}}

EmittedProgress == SelectSeq(emitted_signals, IsProgress)

WorkerSignalOrder ==
    /\ Cardinality(TerminalPositions) <= 1
    /\ Len(EmittedProgress) <= Len(ProgressValues)
    /\ \A i \in 1..Len(EmittedProgress) : EmittedProgress[i].value = ProgressValues[i]
    /\ \A i \in 1..Len(emitted_signals) :
          /\ emitted_signals[i].signal = "analysis_complete" =>
                \E k \in 1..(i - 1) : emitted_signals[k] = ProgressUpdated(100)
          /\ emitted_signals[i].signal = "error_occurred" =>
                \A k \in (i + 1)..Len(emitted_signals) : ~IsProgress(emitted_signals[k])
    /\ run_stage = "returned" => Cardinality(TerminalPositions) = 1

ActiveWorkers ==
    {w \in 1..Len(workers) : workers[w].state \in {"running", "finished"}}

C29_AtMostOneWorker ==
    /\ Cardinality(ActiveWorkers) <= 1
    /\ \A w \in 1..Len(workers) : IsRunning(w) => analysis_worker = w

====
